---------------------------- MODULE Spec2Model ----------------------------
(***************************************************************************)
(* Tech-stack ingestion and store, roadmap router and GitHub upload of     *)
(* Roadmaps_Backend.                                                       *)
(*                                                                         *)
(*   excelImport.js          (src/unnamed/part_002)  processExcelFile      *)
(*   spreadsheetConverter.js (src/unnamed/part_003)  convertSheetsToCSV    *)
(*   bulkUpload.js           (src/unnamed/part_004)  processCSVFile        *)
(*   techStackController.js  (src/unnamed/part_004)  HTTP handlers         *)
(*   TechStack.js            (src/unnamed/part_007)  the store schema      *)
(*   roadmapRoutes.js        (src/routes)            the roadmap router    *)
(*   roadmapController.js    (src/controllers)       roadmap handlers      *)
(*   githubController.js     (src/unnamed/part_005)  uploadRoadmap         *)
(*                                                                         *)
(* A text is a sequence of one-character strings, so that trim, split,     *)
(* includes and toLowerCase are computed character by character as the     *)
(* JavaScript does.                                                        *)
(***************************************************************************)
EXTENDS Integers, Sequences, FiniteSets, TLC

VARIABLES
    disk,      \* the files the scripts read and write: [xlsx, csv]
    store,     \* the TechStack collection: a sequence of documents
    run,       \* the script process that is running, with its locals
    resp,      \* the last HTTP response of the controller
    norm,      \* the Status Normalizer's last input and its three results
    roadmaps,  \* the Roadmap collection: a sequence of documents
    reply,     \* the last request to /api/roadmaps and its response
    github     \* the GitHub repository and the uploadRoadmap requests in
               \* flight

vars == <<disk, store, run, resp, norm, roadmaps, reply, github>>

----------------------------------------------------------------------------
(* JavaScript values and String methods                                    *)

\* The JavaScript value undefined (row[-1], a missing key). Every text has
\* one-character elements, so no text equals it.
Undefined == <<"undefined">>

\* !v for a text or undefined: the empty string and undefined are falsy.
Falsy(v) == v = <<>> \/ v = Undefined

UpperChars == <<"A","B","C","D","E","F","G","H","I","J","K","L","M",
                "N","O","P","Q","R","S","T","U","V","W","X","Y","Z">>
LowerChars == <<"a","b","c","d","e","f","g","h","i","j","k","l","m",
                "n","o","p","q","r","s","t","u","v","w","x","y","z">>

LowerOf ==
    [c \in {UpperChars[i] : i \in 1..Len(UpperChars)} |->
        LowerChars[CHOOSE i \in 1..Len(UpperChars) : UpperChars[i] = c]]

LowerChar(c) == IF c \in DOMAIN LowerOf THEN LowerOf[c] ELSE c

\* String.prototype.toLowerCase
toLowerCase(s) == [i \in 1..Len(s) |-> LowerChar(s[i])]

\* String.prototype.includes
includes(s, sub) ==
    \E i \in 0..(Len(s) - Len(sub)) :
        \A j \in 1..Len(sub) : s[i + j] = sub[j]

\* The white space String.prototype.trim removes.
IsWhiteSpace(c) == c \in {" ", "\t", "\n", "\r", "\f"}

\* String.prototype.trim
trim(s) ==
    IF \A i \in 1..Len(s) : IsWhiteSpace(s[i]) THEN <<>>
    ELSE LET first == CHOOSE i \in 1..Len(s) :
                          /\ ~IsWhiteSpace(s[i])
                          /\ \A j \in 1..(i - 1) : IsWhiteSpace(s[j])
             last  == CHOOSE i \in 1..Len(s) :
                          /\ ~IsWhiteSpace(s[i])
                          /\ \A j \in (i + 1)..Len(s) : IsWhiteSpace(s[j])
         IN  SubSeq(s, first, last)

\* String.prototype.split(/\r?\n/): the pieces between line breaks, a line
\* break being "\n" with the "\r" right before it, if there is one.
RECURSIVE splitFrom(_, _, _)
splitFrom(s, i, piece) ==
    IF i > Len(s) THEN <<piece>>
    ELSE IF s[i] = "\n" THEN <<piece>> \o splitFrom(s, i + 1, <<>>)
    ELSE IF s[i] = "\r" /\ i < Len(s) /\ s[i + 1] = "\n"
         THEN <<piece>> \o splitFrom(s, i + 2, <<>>)
    ELSE splitFrom(s, i + 1, Append(piece, s[i]))

splitLines(s) == splitFrom(s, 1, <<>>)

\* Array.prototype.map and Array.prototype.some / findIndex helpers.
MapSeq(f(_), xs) == [i \in 1..Len(xs) |-> f(xs[i])]

NonEmpty(s) == s # <<>>

\* Array.prototype.findIndex, 0-based as in JavaScript: -1 when none matches.
findIndex(xs, P(_)) ==
    IF \E i \in 1..Len(xs) : P(xs[i])
    THEN (CHOOSE i \in 1..Len(xs) :
              P(xs[i]) /\ \A j \in 1..(i - 1) : ~P(xs[j])) - 1
    ELSE -1

\* row[k] for a 0-based index k: undefined outside the row.
At(row, k) == IF k >= 0 /\ k < Len(row) THEN row[k + 1] ELSE Undefined

----------------------------------------------------------------------------
(* Literal texts of the source                                             *)

YetToStart == <<"Y","e","t"," ","t","o"," ","S","t","a","r","t">>
InProgress == <<"I","n"," ","P","r","o","g","r","e","s","s">>
Completed  == <<"C","o","m","p","l","e","t","e","d">>

K_complete == <<"c","o","m","p","l","e","t","e">>
K_done     == <<"d","o","n","e">>
K_finish   == <<"f","i","n","i","s","h">>
K_progress == <<"p","r","o","g","r","e","s","s">>
K_ongoing  == <<"o","n","g","o","i","n","g">>
K_partial  == <<"p","a","r","t","i","a","l">>

K_topic        == <<"t","o","p","i","c">>
K_sub          == <<"s","u","b">>
K_sub_topic    == <<"s","u","b","-","t","o","p","i","c">>
K_subtopic     == <<"s","u","b","t","o","p","i","c">>
K_project      == <<"p","r","o","j","e","c","t">>
K_task         == <<"t","a","s","k">>
K_app          == <<"a","p","p">>
K_status       == <<"s","t","a","t","u","s">>
K_readme       == <<"r","e","a","d","m","e">>
K_instructions == <<"i","n","s","t","r","u","c","t","i","o","n","s">>

L_Topic       == <<"T","o","p","i","c">>
L_SubTopics   == <<"S","u","b","-","T","o","p","i","c","s">>
L_ProjectTask == <<"P","r","o","j","e","c","t"," ","/"," ","T","a","s","k">>
L_Projects    == <<"P","r","o","j","e","c","t","s">>
L_Status      == <<"S","t","a","t","u","s">>

\* `Imported from ${path.basename(filePath)}, sheet: ` for the file wb.xlsx
L_ImportedFrom == <<"I","m","p","o","r","t","e","d"," ","f","r","o","m"," ",
                    "w","b",".","x","l","s","x",","," ","s","h","e","e","t",
                    ":"," ">>

----------------------------------------------------------------------------
(* Status Normalizer: the three copies                                     *)

\* excelImport.js
normalizeStatusImport(status) ==
    IF Falsy(status) THEN YetToStart
    ELSE LET statusStr == toLowerCase(status)
         IN  IF \/ includes(statusStr, K_complete)
                \/ includes(statusStr, K_done)
                \/ includes(statusStr, K_finish)
             THEN Completed
             ELSE IF \/ includes(statusStr, K_progress)
                     \/ includes(statusStr, K_ongoing)
                     \/ includes(statusStr, K_partial)
             THEN InProgress
             ELSE YetToStart

\* spreadsheetConverter.js
normalizeStatusConvert(status) ==
    IF Falsy(status) THEN YetToStart
    ELSE LET statusStr == toLowerCase(status)
         IN  IF \/ includes(statusStr, K_complete)
                \/ includes(statusStr, K_done)
                \/ includes(statusStr, K_finish)
             THEN Completed
             ELSE IF \/ includes(statusStr, K_progress)
                     \/ includes(statusStr, K_ongoing)
                     \/ includes(statusStr, K_partial)
             THEN InProgress
             ELSE YetToStart

\* A normalizer that looks for the In Progress words first.
normalizeStatusUpload_ProgressFirst(status) ==
    IF Falsy(status) THEN YetToStart
    ELSE LET statusStr == toLowerCase(status)
         IN  IF \/ includes(statusStr, K_progress)
                \/ includes(statusStr, K_ongoing)
                \/ includes(statusStr, K_partial)
             THEN InProgress
             ELSE IF \/ includes(statusStr, K_complete)
                     \/ includes(statusStr, K_done)
                     \/ includes(statusStr, K_finish)
             THEN Completed
             ELSE YetToStart

\* bulkUpload.js
normalizeStatusUpload(status) ==
    IF Falsy(status) THEN YetToStart
    ELSE LET statusStr == toLowerCase(status)
         IN  IF \/ includes(statusStr, K_complete)
                \/ includes(statusStr, K_done)
                \/ includes(statusStr, K_finish)
             THEN Completed
             ELSE IF \/ includes(statusStr, K_progress)
                     \/ includes(statusStr, K_ongoing)
                     \/ includes(statusStr, K_partial)
             THEN InProgress
             ELSE YetToStart

----------------------------------------------------------------------------
(* JavaScript Map: entries in insertion order, one entry per key           *)

MapHas(m, k) == \E i \in 1..Len(m) : m[i].key = k

MapGet(m, k) == m[CHOOSE i \in 1..Len(m) : m[i].key = k].val

MapSet(m, k, v) ==
    IF MapHas(m, k)
    THEN [i \in 1..Len(m) |-> IF m[i].key = k THEN [key |-> k, val |-> v]
                                              ELSE m[i]]
    ELSE Append(m, [key |-> k, val |-> v])

\* Array.from(map.values())
MapValues(m) == [i \in 1..Len(m) |-> m[i].val]

\* names.some(s => s.name === name)
HasName(names, name) == \E i \in 1..Len(names) : names[i] = name

\* if (!list.some(s => s.name === name)) list.push({ name })
PushIfAbsent(names, name) ==
    IF HasName(names, name) THEN names ELSE Append(names, name)

\* tokens.forEach(t => { if (!list.some(...)) list.push(t) })
RECURSIVE PushAllIfAbsent(_, _)
PushAllIfAbsent(names, tokens) ==
    IF tokens = <<>> THEN names
    ELSE PushAllIfAbsent(PushIfAbsent(names, Head(tokens)), Tail(tokens))

\* JavaScript's  v || fallback
OrElse(v, fallback) == IF Falsy(v) THEN fallback ELSE v

----------------------------------------------------------------------------
(* TechStack.js: the store schema and the store operations the code calls  *)

StatusEnum == {YetToStart, InProgress, Completed}

\* RoadmapItemSchema's casts: trim on topic and on every name, the default
\* of completionStatus.
CastItem(item) ==
    [topic            |-> IF item.topic = Undefined THEN Undefined
                          ELSE trim(item.topic),
     subTopics        |-> IF item.subTopics = Undefined THEN <<>>
                          ELSE MapSeq(trim, item.subTopics),
     projects         |-> IF item.projects = Undefined THEN <<>>
                          ELSE MapSeq(trim, item.projects),
     completionStatus |-> IF item.completionStatus = Undefined
                          THEN YetToStart ELSE item.completionStatus]

\* RoadmapItemSchema's validators: required (a string must be non-empty)
\* and enum.
ValidItem(item) ==
    /\ ~Falsy(item.topic)
    /\ \A i \in 1..Len(item.subTopics) : ~Falsy(item.subTopics[i])
    /\ \A i \in 1..Len(item.projects) : ~Falsy(item.projects[i])
    /\ item.completionStatus \in StatusEnum

ValidItems(items) == \A i \in 1..Len(items) : ValidItem(items[i])

\* A new _id: one that no document (no item of the array) in S has.
FreshId(S) ==
    CHOOSE n \in 1..(Cardinality(S) + 1) :
        n \notin S /\ \A m \in 1..(n - 1) : m \in S

\* A string path set from a request or a script: absent stays absent, a
\* text is trimmed (trim: true).
CastText(v) == IF v = Undefined THEN Undefined ELSE trim(v)

\* headers: the defaults of TechStackSchema
DefaultHeaders ==
    [topic |-> L_Topic, subTopics |-> L_SubTopics, projects |-> L_Projects,
     status |-> L_Status]

\* A sub-document keeps the _id it has.
WithId(item, id) ==
    [id               |-> id,
     topic            |-> item.topic,
     subTopics        |-> item.subTopics,
     projects         |-> item.projects,
     completionStatus |-> item.completionStatus]

\* Assigning a whole array of plain objects: every item is cast and is new.
NewItems(items) == [i \in 1..Len(items) |-> WithId(CastItem(items[i]), i)]

\* TechStack.findOne({ name }): the position of the document, 0 for null.
findOne(st, name) ==
    IF \E i \in 1..Len(st) : st[i].name = name
    THEN CHOOSE i \in 1..Len(st) : st[i].name = name
    ELSE 0

\* TechStack.findById(id): the position of the document, 0 for null.
findById(st, id) ==
    IF \E i \in 1..Len(st) : st[i].id = id
    THEN CHOOSE i \in 1..Len(st) : st[i].id = id
    ELSE 0

\* A collection without the unique index: no name collides.
DuplicateKey_Never(st, name, self) == FALSE

\* The unique index on name (TechStackSchema, unique: true): would a
\* document named `name` at position `self` (0: a new one) collide?
DuplicateKey(st, name, self) ==
    \E i \in 1..Len(st) : i # self /\ st[i].name = name

\* new TechStack(data).save(): cast, validate, insert under the unique
\* index. [ok, store]: ok is FALSE when save() throws.
SaveNew(st, name, description, headers, items) ==
    LET cast == NewItems(items)
        nm   == CastText(name)
    IN  IF Falsy(nm) \/ ~ValidItems(cast)
        THEN [ok |-> FALSE, code |-> 0, store |-> st]
        ELSE IF DuplicateKey(st, nm, 0)
        THEN [ok |-> FALSE, code |-> 11000, store |-> st]
        ELSE [ok |-> TRUE, code |-> 0,
              store |-> Append(st,
                  [id           |-> FreshId({st[i].id : i \in 1..Len(st)}),
                   name         |-> nm,
                   description  |-> CastText(description),
                   headers      |-> headers,
                   roadmapItems |-> cast])]

\* A save that keeps the items the document had and adds the new ones.
SaveReplaced_KeepsOld(st, pos, description, headers, items) ==
    LET cast == NewItems(items)
    IN  IF ~ValidItems(cast)
        THEN [ok |-> FALSE, code |-> 0, store |-> st]
        ELSE [ok |-> TRUE, code |-> 0,
              store |-> [st EXCEPT ![pos].description  = CastText(description),
                                   ![pos].headers      = headers,
                                   ![pos].roadmapItems = @ \o cast]]

\* A save that adds the description to the one the document had.
SaveReplaced_AddsDescription(st, pos, description, headers, items) ==
    LET cast == NewItems(items)
    IN  IF ~ValidItems(cast)
        THEN [ok |-> FALSE, code |-> 0, store |-> st]
        ELSE [ok |-> TRUE, code |-> 0,
              store |-> [st EXCEPT ![pos].description  =
                                       @ \o CastText(description),
                                   ![pos].headers      = headers,
                                   ![pos].roadmapItems = cast]]

\* existing.description = ..; existing.roadmapItems = ..;
\* existing.headers = ..; existing.save()
SaveReplaced(st, pos, description, headers, items) ==
    LET cast == NewItems(items)
    IN  IF ~ValidItems(cast)
        THEN [ok |-> FALSE, code |-> 0, store |-> st]
        ELSE [ok |-> TRUE, code |-> 0,
              store |-> [st EXCEPT ![pos].description  = CastText(description),
                                   ![pos].headers      = headers,
                                   ![pos].roadmapItems = cast]]

----------------------------------------------------------------------------
(* The script process                                                      *)

\* let currentTopic = null
Null == <<"null">>

\* A path at which nothing exists: disk.xlsx when there is no workbook,
\* disk.csv when there is no directory (and so no file in it). Reading it
\* gives the error.
Missing == <<[code |-> "ENOENT"]>>

\* No script is running.
IdleRun ==
    [script |-> "none",   \* "none", "import", "convert", "upload"
     mode   |-> "none",   \* upload: "file" (--file --name) or "dir" (--dir)
     name   |-> <<>>,     \* upload --file: the --name argument
     description |-> <<>>, \* upload --file: the --description argument
     pc     |-> "idle",   \* "idle", "sheet", "rows", "done"
     unit   |-> 0,        \* the sheet (file) being processed, 1-based
     row    |-> 0,        \* the index of the row loop: i of the import's
                          \* for loop, the forEach index of the upload
     table  |-> [fields |-> <<>>, data |-> <<>>],
                          \* upload: the parsed CSV of the file
     ix     |-> [topic |-> -1, subTopics |-> -1, projects |-> -1,
                 status |-> -1],
                          \* import: topicIndex, subTopicsIndex,
                          \* projectIndex, statusIndex
     hm     |-> [topic |-> Undefined, subtopic |-> Undefined,
                 project |-> Undefined, status |-> Undefined],
                          \* upload: headerMapping
     headers |-> [topic |-> <<>>, subTopics |-> <<>>, projects |-> <<>>,
                  status |-> <<>>],
                          \* customHeaders
     map    |-> <<>>,     \* topicMap / topicsMap
     cur    |-> Null,     \* import: currentTopic
     count  |-> 0,        \* processedCount / validSheetCount
     last   |-> "none",   \* what was logged for the last unit: "saved",
                          \* "failed" (an error was logged), "skipped"
     exit   |-> -1]       \* the exit status, -1 while running

----------------------------------------------------------------------------
(* excelImport.js: processExcelFile                                        *)

\* jsonData[0].map(h => h ? h.toString().trim() : '')
ImportHeaders(jsonData) ==
    MapSeq(LAMBDA h : IF Falsy(h) THEN <<>> ELSE trim(h), jsonData[1])

\* The topic test without its `!includes('sub')` half
ImportIsTopicHeader_NoSubTest(h) == includes(toLowerCase(h), K_topic)

ImportIsTopicHeader(h) ==
    includes(toLowerCase(h), K_topic) /\ ~includes(toLowerCase(h), K_sub)

ImportIsSubTopicsHeader(h) ==
    \/ includes(toLowerCase(h), K_sub_topic)
    \/ includes(toLowerCase(h), K_subtopic)

ImportIsProjectHeader(h) ==
    \/ includes(toLowerCase(h), K_project)
    \/ includes(toLowerCase(h), K_task)
    \/ includes(toLowerCase(h), K_app)

ImportIsStatusHeader(h) == includes(toLowerCase(h), K_status)

\* topicIndex, subTopicsIndex, projectIndex, statusIndex
ImportIndices(headers) ==
    [topic     |-> findIndex(headers, ImportIsTopicHeader),
     subTopics |-> findIndex(headers, ImportIsSubTopicsHeader),
     projects  |-> findIndex(headers, ImportIsProjectHeader),
     status    |-> findIndex(headers, ImportIsStatusHeader)]

\* customHeaders
ImportCustomHeaders(headers, ix) ==
    [topic     |-> OrElse(At(headers, ix.topic), L_Topic),
     subTopics |-> OrElse(At(headers, ix.subTopics), L_SubTopics),
     projects  |-> OrElse(At(headers, ix.projects), L_ProjectTask),
     status    |-> OrElse(At(headers, ix.status), L_Status)]

\* ImportRowTopic with the map keyed by the cell as read, not trimmed.
ImportRowTopic_RawKey(st, row, ix) ==
    LET cell == At(row, ix.topic)
    IN  IF ~Falsy(cell) /\ trim(cell) # <<>>
        THEN [cur |-> cell,
              map |-> IF ~MapHas(st.map, cell)
                      THEN MapSet(st.map, cell,
                               [topic            |-> trim(cell),
                                subTopics        |-> <<>>,
                                projects         |-> <<>>,
                                completionStatus |-> YetToStart])
                      ELSE st.map]
        ELSE st

\* ImportRowTopic taking every truthy cell for a topic, a blank one too.
ImportRowTopic_NoBlankTest(st, row, ix) ==
    LET cell == At(row, ix.topic)
    IN  IF ~Falsy(cell)
        THEN LET currentTopic == trim(cell)
             IN  [cur |-> currentTopic,
                  map |-> IF ~MapHas(st.map, currentTopic)
                          THEN MapSet(st.map, currentTopic,
                                   [topic            |-> currentTopic,
                                    subTopics        |-> <<>>,
                                    projects         |-> <<>>,
                                    completionStatus |->
                                        IF ~Falsy(At(row, ix.status))
                                        THEN normalizeStatusImport(
                                                 At(row, ix.status))
                                        ELSE YetToStart])
                          ELSE st.map]
        ELSE st

\* ImportRowTopic forgetting the current topic at a row without one.
ImportRowTopic_NoCarry(st, row, ix) ==
    LET cell == At(row, ix.topic)
    IN  IF ~Falsy(cell) /\ trim(cell) # <<>>
        THEN LET currentTopic == trim(cell)
             IN  [cur |-> currentTopic,
                  map |-> IF ~MapHas(st.map, currentTopic)
                          THEN MapSet(st.map, currentTopic,
                                   [topic            |-> currentTopic,
                                    subTopics        |-> <<>>,
                                    projects         |-> <<>>,
                                    completionStatus |->
                                        IF ~Falsy(At(row, ix.status))
                                        THEN normalizeStatusImport(
                                                 At(row, ix.status))
                                        ELSE YetToStart])
                          ELSE st.map]
        ELSE [st EXCEPT !.cur = Null]

\* The `if (row[topicIndex] && ...)` block: the row names a topic.
ImportRowTopic(st, row, ix) ==
    LET cell == At(row, ix.topic)
    IN  IF ~Falsy(cell) /\ trim(cell) # <<>>
        THEN LET currentTopic == trim(cell)
             IN  [cur |-> currentTopic,
                  map |-> IF ~MapHas(st.map, currentTopic)
                          THEN MapSet(st.map, currentTopic,
                                   [topic            |-> currentTopic,
                                    subTopics        |-> <<>>,
                                    projects         |-> <<>>,
                                    completionStatus |->
                                        IF ~Falsy(At(row, ix.status))
                                        THEN normalizeStatusImport(
                                                 At(row, ix.status))
                                        ELSE YetToStart])
                          ELSE st.map]
        ELSE st

\* ImportRowSubTopics pushing a single-line cell without the `some` test.
ImportRowSubTopics_NoTest(topicObj, row, ix) ==
    LET cell == At(row, ix.subTopics)
    IN  IF ix.subTopics # -1 /\ ~Falsy(cell) /\ trim(cell) # <<>>
        THEN IF includes(cell, <<"\n">>) \/ includes(cell, <<"\r">>)
             THEN [topicObj EXCEPT !.subTopics =
                       PushAllIfAbsent(@,
                           SelectSeq(MapSeq(trim, splitLines(cell)),
                                     NonEmpty))]
             ELSE [topicObj EXCEPT !.subTopics = Append(@, trim(cell))]
        ELSE topicObj

\* "Process subtopics": the sub-topic cell of the row into topicObj.
ImportRowSubTopics(topicObj, row, ix) ==
    LET cell == At(row, ix.subTopics)
    IN  IF ix.subTopics # -1 /\ ~Falsy(cell) /\ trim(cell) # <<>>
        THEN IF includes(cell, <<"\n">>) \/ includes(cell, <<"\r">>)
             THEN [topicObj EXCEPT !.subTopics =
                       PushAllIfAbsent(@,
                           SelectSeq(MapSeq(trim, splitLines(cell)),
                                     NonEmpty))]
             ELSE [topicObj EXCEPT !.subTopics = PushIfAbsent(@, trim(cell))]
        ELSE topicObj

\* "Process projects": the project cell of the row into topicObj.
ImportRowProjects(topicObj, row, ix) ==
    LET cell == At(row, ix.projects)
    IN  IF ix.projects # -1 /\ ~Falsy(cell) /\ trim(cell) # <<>>
        THEN [topicObj EXCEPT !.projects = PushIfAbsent(@, trim(cell))]
        ELSE topicObj

\* "Update status if provided": Completed > In Progress > Yet to Start.
ImportRowStatus(topicObj, row, ix) ==
    LET cell == At(row, ix.status)
    IN  IF ix.status # -1 /\ ~Falsy(cell) /\ trim(cell) # <<>>
        THEN LET status == normalizeStatusImport(cell)
             IN  IF \/ status = Completed
                    \/ /\ status = InProgress
                       /\ topicObj.completionStatus # Completed
                 THEN [topicObj EXCEPT !.completionStatus = status]
                 ELSE topicObj
        ELSE topicObj

\* One pass of the row loop: st = [map, cur] before the row, the result
\* after it.
ImportRowStep(st, row, ix) ==
    LET st1 == ImportRowTopic(st, row, ix)
    IN  IF st1.cur = Null THEN st1
        ELSE LET topicObj == MapGet(st1.map, st1.cur)
                 obj1 == ImportRowSubTopics(topicObj, row, ix)
                 obj2 == ImportRowProjects(obj1, row, ix)
                 obj3 == ImportRowStatus(obj2, row, ix)
             IN  [cur |-> st1.cur, map |-> MapSet(st1.map, st1.cur, obj3)]

\* The try block of a sheet: findOne, then update or create.
ImportSink(st, sheetName, headers, roadmapItems) ==
    LET description == L_ImportedFrom \o sheetName
        existing    == findOne(st, sheetName)
    IN  IF existing # 0
        THEN SaveReplaced(st, existing, description, headers, roadmapItems)
        ELSE SaveNew(st, sheetName, description, headers, roadmapItems)

\* main: without the file it exits with 1; else processExcelFile reads the
\* workbook.
ImportStart ==
    /\ run.script = "none"
    /\ run' = IF disk.xlsx = Missing
              THEN [IdleRun EXCEPT !.script = "import", !.pc = "done",
                                   !.exit = 1, !.last = "failed"]
              ELSE [IdleRun EXCEPT !.script = "import", !.pc = "sheet",
                                   !.unit = 1]
    /\ UNCHANGED <<disk, store, resp, norm, roadmaps, reply, github>>

\* A bug the skip of ReadMe sheets could have: the name compared as written.
ImportSkipsName_CaseSensitive(sheetName) ==
    sheetName = K_readme \/ sheetName = K_instructions

\* sheetName.toLowerCase() === 'readme' ||
\* sheetName.toLowerCase() === 'instructions'
ImportSkipsName(sheetName) ==
    toLowerCase(sheetName) = K_readme \/ toLowerCase(sheetName) = K_instructions

\* The head of the sheet loop: the sheet is skipped, or its headers are
\* resolved and its row loop starts; after the last sheet the script ends.
ImportSheet ==
    /\ run.script = "import" /\ run.pc = "sheet"
    /\ IF run.unit > Len(disk.xlsx)
       THEN run' = [run EXCEPT !.pc = "done", !.exit = 0]
       ELSE LET sheet    == disk.xlsx[run.unit]
                jsonData == sheet.rows
            IN  IF \/ ImportSkipsName(sheet.name)
                   \/ Len(jsonData) <= 1
                   \/ ImportIndices(ImportHeaders(jsonData)).topic = -1
                THEN run' = [run EXCEPT !.unit = @ + 1, !.last = "skipped"]
                ELSE LET headers == ImportHeaders(jsonData)
                         ix      == ImportIndices(headers)
                     IN  run' = [run EXCEPT
                                    !.pc = "rows", !.row = 1, !.ix = ix,
                                    !.headers =
                                        ImportCustomHeaders(headers, ix),
                                    !.map = <<>>, !.cur = Null]
    /\ UNCHANGED <<disk, store, resp, norm, roadmaps, reply, github>>

\* One iteration of `for (let i = 1; i < jsonData.length; i++)`.
ImportRow ==
    /\ run.script = "import" /\ run.pc = "rows"
    /\ LET jsonData == disk.xlsx[run.unit].rows
       IN  /\ run.row < Len(jsonData)
           /\ LET st == ImportRowStep([map |-> run.map, cur |-> run.cur],
                                      jsonData[run.row + 1], run.ix)
              IN  run' = [run EXCEPT !.row = @ + 1,
                                     !.map = st.map, !.cur = st.cur]
    /\ UNCHANGED <<disk, store, resp, norm, roadmaps, reply, github>>

\* A bug the sheet loop could have: no try/catch around the save.
ImportFailed_Aborts ==
    [run EXCEPT !.pc = "done", !.exit = 1, !.last = "failed"]

\* The save of a sheet threw: the catch logs it and the loop goes on.
ImportFailed ==
    [run EXCEPT !.pc = "sheet", !.unit = @ + 1, !.last = "failed"]

\* A bug the sheet loop could have: save() is not awaited, the loop goes on
\* to the next sheet before the store has taken the write.
ImportSave_NotAwaited ==
    /\ run.script = "import" /\ run.pc = "rows"
    /\ run.row >= Len(disk.xlsx[run.unit].rows)
    /\ store' = store
    /\ run' = [run EXCEPT !.pc = "sheet", !.unit = @ + 1,
                          !.count = IF MapValues(run.map) = <<>>
                                    THEN @ ELSE @ + 1,
                          !.last = IF MapValues(run.map) = <<>>
                                   THEN "skipped" ELSE "saved"]
    /\ UNCHANGED <<disk, resp, norm, roadmaps, reply, github>>

\* After the row loop: the roadmap items of the sheet are persisted, unless
\* there are none; a failed save is caught and logged.
ImportSave ==
    /\ run.script = "import" /\ run.pc = "rows"
    /\ LET sheet        == disk.xlsx[run.unit]
           jsonData     == sheet.rows
           roadmapItems == MapValues(run.map)
       IN  /\ run.row >= Len(jsonData)
           /\ IF roadmapItems = <<>>
              THEN /\ store' = store
                   /\ run' = [run EXCEPT !.pc = "sheet", !.unit = @ + 1,
                                         !.last = "skipped"]
              ELSE LET saved == ImportSink(store, sheet.name, run.headers,
                                    roadmapItems)
                   IN  /\ store' = saved.store
                       /\ run' = IF saved.ok
                                 THEN [run EXCEPT
                                          !.pc = "sheet", !.unit = @ + 1,
                                          !.count = @ + 1, !.last = "saved"]
                                 ELSE ImportFailed
    /\ UNCHANGED <<disk, resp, norm, roadmaps, reply, github>>

NextImport == ImportStart \/ ImportSheet \/ ImportRow \/ ImportSave

----------------------------------------------------------------------------
(* spreadsheetConverter.js: convertSheetsToCSV                             *)

K_topics             == <<"t","o","p","i","c","s">>
K_technology         == <<"t","e","c","h","n","o","l","o","g","y">>
K_sub_topics         == <<"s","u","b","-","t","o","p","i","c","s">>
K_subtopics          == <<"s","u","b","t","o","p","i","c","s">>
K_project_app        == <<"p","r","o","j","e","c","t","/","a","p","p"," ",
                          "t","o"," ","b","u","i","l","d">>
K_projects           == <<"p","r","o","j","e","c","t","s">>
K_projects_apps      == <<"p","r","o","j","e","c","t","s","/","a","p","p",
                          "s"," ","b","u","i","l","t">>
K_application        == <<"a","p","p","l","i","c","a","t","i","o","n">>
K_status_of          == <<"s","t","a","t","u","s"," ","o","f"," ","c","o",
                          "m","p","l","e","t","i","o","n">>
K_completion         == <<"c","o","m","p","l","e","t","i","o","n">>
K_completion_status  == <<"c","o","m","p","l","e","t","i","o","n"," ","s",
                          "t","a","t","u","s">>

\* possibleNames.some(name => header.includes(name.toLowerCase()))
MatchesAny(header, possibleNames) ==
    \E n \in 1..Len(possibleNames) :
        includes(toLowerCase(header), toLowerCase(possibleNames[n]))

\* findColumnIndex(headers, possibleNames)
findColumnIndex(headers, possibleNames) ==
    findIndex(headers, LAMBDA h : MatchesAny(h, possibleNames))

\* topicsColIdx, subTopicsColIdx, projectsColIdx, statusColIdx
ConvertIndices(headers) ==
    [topic     |-> findColumnIndex(headers,
                       <<K_topics, K_topic, K_technology>>),
     subTopics |-> findColumnIndex(headers,
                       <<K_sub_topics, K_subtopics, K_sub_topic,
                         K_subtopic>>),
     projects  |-> findColumnIndex(headers,
                       <<K_project_app, K_projects, K_projects_apps,
                         K_application>>),
     status    |-> findColumnIndex(headers,
                       <<K_status_of, K_status, K_completion>>)]

\* headerRow: customHeaders in the order topic, subTopics, projects, status
ConvertHeaderRow(headers) ==
    LET ix == ConvertIndices(headers)
    IN  <<OrElse(At(headers, ix.topic), L_Topic),
          IF ix.subTopics # -1 THEN At(headers, ix.subTopics)
                               ELSE L_SubTopics,
          IF ix.projects # -1 THEN At(headers, ix.projects) ELSE L_Projects,
          IF ix.status # -1 THEN At(headers, ix.status) ELSE L_Status>>

\* newRow for a data row that has a topic
ConvertRow(row, ix) ==
    <<OrElse(At(row, ix.topic), <<>>),
      IF ix.subTopics # -1 THEN OrElse(At(row, ix.subTopics), <<>>)
                           ELSE <<>>,
      IF ix.projects # -1 THEN OrElse(At(row, ix.projects), <<>>) ELSE <<>>,
      IF ix.status # -1
      THEN normalizeStatusConvert(OrElse(At(row, ix.status), <<>>))
      ELSE YetToStart>>

\* csvData: the header row and a row for every data row with a topic cell
ConvertData(jsonData) ==
    LET headers == ImportHeaders(jsonData)
        ix      == ConvertIndices(headers)
        kept    == SelectSeq(Tail(jsonData),
                             LAMBDA row : ~Falsy(At(row, ix.topic)))
    IN  <<ConvertHeaderRow(headers)>>
            \o [k \in 1..Len(kept) |-> ConvertRow(kept[k], ix)]

\* cellStr.replace(/"/g, '""')
RECURSIVE DoubleQuotes(_)
DoubleQuotes(s) ==
    IF s = <<>> THEN <<>>
    ELSE (IF Head(s) = "\"" THEN <<"\"", "\"">> ELSE <<Head(s)>>)
             \o DoubleQuotes(Tail(s))

\* A bug the escape could have: the field is wrapped, its quotes are not
\* doubled.
CsvCell_QuotesKept(cell) ==
    IF cell = Undefined THEN <<>>
    ELSE IF \/ includes(cell, <<",">>) \/ includes(cell, <<"\"">>)
            \/ includes(cell, <<"\n">>) \/ includes(cell, <<"\r">>)
    THEN <<"\"">> \o cell \o <<"\"">>
    ELSE cell

\* The escape of one cell of the CSV output.
CsvCell(cell) ==
    IF cell = Undefined THEN <<>>
    ELSE IF \/ includes(cell, <<",">>) \/ includes(cell, <<"\"">>)
            \/ includes(cell, <<"\n">>) \/ includes(cell, <<"\r">>)
    THEN <<"\"">> \o DoubleQuotes(cell) \o <<"\"">>
    ELSE cell

\* xs.join(sep)
RECURSIVE join(_, _)
join(xs, sep) ==
    IF xs = <<>> THEN <<>>
    ELSE IF Len(xs) = 1 THEN xs[1]
    ELSE xs[1] \o sep \o join(Tail(xs), sep)

\* csvContent
CsvContent(csvData) ==
    join(MapSeq(LAMBDA row : join(MapSeq(CsvCell, row), <<",">>), csvData),
         <<"\n">>)

\* sheetName.replace(/[/\\?%*:|"<>]/g, '_')
SanitizeName(sheetName) ==
    [i \in 1..Len(sheetName) |->
        IF sheetName[i] \in {"/", "\\", "?", "%", "*", ":", "|", "\"",
                             "<", ">"}
        THEN "_" ELSE sheetName[i]]

\* fs.writeFileSync(path.join(outputDir, name + '.csv'), text): a file of
\* that name is overwritten.
WriteFile(dir, name, text) ==
    IF \E i \in 1..Len(dir) : dir[i].name = name
    THEN [i \in 1..Len(dir) |->
             IF dir[i].name = name THEN [name |-> name, text |-> text]
                                   ELSE dir[i]]
    ELSE Append(dir, [name |-> name, text |-> text])

\* range.e.r of decode_range(worksheet['!ref'] || 'A1'): the 0-based index
\* of the last row of the sheet.
LastRowIndex(jsonData) == IF jsonData = <<>> THEN 0 ELSE Len(jsonData) - 1

\* main: convertSheetsToCSV makes the output directory if there is none and
\* reads the workbook; without the file XLSX.readFile throws, which main
\* catches to exit with 1.
ConvertStart ==
    /\ run.script = "none"
    /\ disk' = [disk EXCEPT !.csv = IF @ = Missing THEN <<>> ELSE @]
    /\ run' = IF disk.xlsx = Missing
              THEN [IdleRun EXCEPT !.script = "convert", !.pc = "done",
                                   !.exit = 1, !.last = "failed"]
              ELSE [IdleRun EXCEPT !.script = "convert", !.pc = "sheet",
                                   !.unit = 1]
    /\ UNCHANGED <<store, resp, norm, roadmaps, reply, github>>

\* sheetName.toLowerCase() === 'readme' ||
\* sheetName.toLowerCase() === 'instructions'
ConvertSkipsName(sheetName) ==
    toLowerCase(sheetName) = K_readme \/ toLowerCase(sheetName) = K_instructions

\* One call of the forEach callback: the sheet is skipped or its CSV file
\* is written; after the last sheet the script ends.
ConvertSheet ==
    /\ run.script = "convert" /\ run.pc = "sheet"
    /\ IF run.unit > Len(disk.xlsx)
       THEN /\ run' = [run EXCEPT !.pc = "done", !.exit = 0]
            /\ disk' = disk
       ELSE LET sheet    == disk.xlsx[run.unit]
                jsonData == sheet.rows
            IN  IF \/ ConvertSkipsName(sheet.name)
                   \/ LastRowIndex(jsonData) < 2
                   \/ Len(jsonData) < 2
                   \/ ConvertIndices(ImportHeaders(jsonData)).topic = -1
                   \/ Len(ConvertData(jsonData)) <= 1
                THEN /\ run' = [run EXCEPT !.unit = @ + 1,
                                           !.last = "skipped"]
                     /\ disk' = disk
                ELSE /\ run' = [run EXCEPT !.unit = @ + 1, !.count = @ + 1,
                                           !.last = "saved"]
                     /\ disk' = [disk EXCEPT !.csv =
                                    WriteFile(@, SanitizeName(sheet.name),
                                        CsvContent(ConvertData(jsonData)))]
    /\ UNCHANGED <<store, resp, norm, roadmaps, reply, github>>

NextConvert == ConvertStart \/ ConvertSheet

----------------------------------------------------------------------------
(* Papa.parse(csvText, { header: true, skipEmptyLines: true,               *)
(*                       transformHeader: h => h.trim() })                 *)
(* with the comma as delimiter, "\n" as line end and the double quote as   *)
(* quote character                                                         *)

\* The end of an unquoted field that starts at i: the position of the next
\* delimiter or line end, Len(s) + 1 when there is none.
RECURSIVE FieldEnd(_, _)
FieldEnd(s, i) ==
    IF i > Len(s) \/ s[i] = "," \/ s[i] = "\n" THEN i
    ELSE FieldEnd(s, i + 1)

\* A quoted field read from i, just after the opening quote: its value, ""
\* read as one quote, and the position after the closing quote.
RECURSIVE QuotedField(_, _, _)
QuotedField(s, i, acc) ==
    IF i > Len(s) THEN [val |-> acc, next |-> i]
    ELSE IF s[i] = "\""
         THEN IF i < Len(s) /\ s[i + 1] = "\""
              THEN QuotedField(s, i + 2, Append(acc, "\""))
              ELSE [val |-> acc, next |-> FieldEnd(s, i + 1)]
    ELSE QuotedField(s, i + 1, Append(acc, s[i]))

\* The rows of fields of the text from position i on.
RECURSIVE ParseRows(_, _, _)
ParseRows(s, i, row) ==
    LET f == IF i <= Len(s) /\ s[i] = "\""
             THEN QuotedField(s, i + 1, <<>>)
             ELSE [val |-> SubSeq(s, i, FieldEnd(s, i) - 1),
                   next |-> FieldEnd(s, i)]
        done == Append(row, f.val)
    IN  IF f.next > Len(s) THEN <<done>>
        ELSE IF s[f.next] = "," THEN ParseRows(s, f.next + 1, done)
        ELSE <<done>> \o ParseRows(s, f.next + 1, <<>>)

\* skipEmptyLines: a line that is one empty field is dropped.
NotEmptyLine(row) == row # <<<<>>>>

\* The parse result: the trimmed header fields and the data rows.
PapaParse(csvText) ==
    LET lines == SelectSeq(ParseRows(csvText, 1, <<>>), NotEmptyLine)
    IN  IF lines = <<>> THEN [fields |-> <<>>, data |-> <<>>]
        ELSE [fields |-> MapSeq(trim, Head(lines)), data |-> Tail(lines)]

\* row[header] of a parsed row object: undefined without such a key.
Field(table, row, header) ==
    At(row, findIndex(table.fields, LAMBDA h : h = header))

----------------------------------------------------------------------------
(* bulkUpload.js: processCSVFile, processDirectory, main                   *)

\* headers.find(h => alternatives.some(alt => h.toLowerCase().includes(
\* alt.toLowerCase()))): the header, undefined when none matches.
FindHeader(headers, alternatives) ==
    At(headers, findIndex(headers, LAMBDA h : MatchesAny(h, alternatives)))

\* Object.keys(data[0] || {})
UploadHeaders(table) == IF table.data = <<>> THEN <<>> ELSE table.fields

\* headerMapping: the matched header of each key, undefined when unmatched.
UploadHeaderMapping(table) ==
    LET headers == UploadHeaders(table)
    IN  [topic    |-> FindHeader(headers,
                          <<K_topics, K_topic, K_technology>>),
         subtopic |-> FindHeader(headers,
                          <<K_sub_topics, K_subtopics, K_sub_topic,
                            K_subtopic>>),
         project  |-> FindHeader(headers,
                          <<K_project_app, K_projects, K_projects_apps>>),
         status   |-> FindHeader(headers,
                          <<K_status_of, K_status, K_completion_status>>)]

\* customHeaders: the matched header for display, else the default label.
UploadCustomHeaders(hm) ==
    [topic     |-> OrElse(hm.topic, L_Topic),
     subTopics |-> OrElse(hm.subtopic, L_SubTopics),
     projects  |-> OrElse(hm.project, L_Projects),
     status    |-> OrElse(hm.status, L_Status)]

\* let subTopics = []; if (...) subTopics = cell.split(...)...
UploadRowSubTopics(table, row, hm) ==
    LET cell == Field(table, row, hm.subtopic)
    IN  IF ~Falsy(hm.subtopic) /\ ~Falsy(cell)
        THEN SelectSeq(MapSeq(trim, splitLines(cell)), NonEmpty)
        ELSE <<>>

\* let projects = []; if (...) { split at line breaks, or the cell trimmed }
UploadRowProjects(table, row, hm) ==
    LET cell == Field(table, row, hm.project)
    IN  IF ~Falsy(hm.project) /\ ~Falsy(cell)
        THEN IF includes(cell, <<"\n">>)
             THEN SelectSeq(MapSeq(trim, splitLines(cell)), NonEmpty)
             ELSE <<trim(cell)>>
        ELSE <<>>

\* let status = 'Yet to Start'; if (...) status = normalizeStatus(cell)
UploadRowStatus(table, row, hm) ==
    LET cell == Field(table, row, hm.status)
    IN  IF ~Falsy(hm.status) /\ ~Falsy(cell)
        THEN normalizeStatusUpload(cell)
        ELSE YetToStart

\* A merge in which the status of the latest row wins.
UploadMerge_LastWins(existingItem, subTopics, projects, status) ==
    [topic            |-> existingItem.topic,
     subTopics        |-> PushAllIfAbsent(existingItem.subTopics, subTopics),
     projects         |-> PushAllIfAbsent(existingItem.projects, projects),
     completionStatus |-> status]

\* "For duplicate topics, merge the data"
UploadMerge(existingItem, subTopics, projects, status) ==
    [topic            |-> existingItem.topic,
     subTopics        |-> PushAllIfAbsent(existingItem.subTopics, subTopics),
     projects         |-> PushAllIfAbsent(existingItem.projects, projects),
     completionStatus |->
         IF \/ status = Completed
            \/ /\ status = InProgress
               /\ existingItem.completionStatus # Completed
         THEN status
         ELSE existingItem.completionStatus]

\* The forEach callback: topicsMap before the row, the result after it.
UploadRowStep(topicsMap, table, row, hm) ==
    LET topic == Field(table, row, hm.topic)
    IN  IF Falsy(topic) THEN topicsMap
        ELSE LET subTopics == UploadRowSubTopics(table, row, hm)
                 projects  == UploadRowProjects(table, row, hm)
                 status    == UploadRowStatus(table, row, hm)
             IN  IF ~MapHas(topicsMap, topic)
                 THEN MapSet(topicsMap, topic,
                          [topic            |-> topic,
                           subTopics        |-> subTopics,
                           projects         |-> projects,
                           completionStatus |-> status])
                 ELSE MapSet(topicsMap, topic,
                          UploadMerge(MapGet(topicsMap, topic),
                                      subTopics, projects, status))

\* findOne, then update or create; a failed save throws.
UploadSink(st, techStackName, description, headers, roadmapItems) ==
    LET existing == findOne(st, techStackName)
    IN  IF existing # 0
        THEN SaveReplaced(st, existing, description, headers, roadmapItems)
        ELSE SaveNew(st, techStackName, description, headers, roadmapItems)

\* The CSV files the run goes through: --dir takes every file of the
\* directory, --file the one named.
UploadUnits ==
    IF run.mode = "dir"
    THEN IF disk.csv = Missing THEN 0 ELSE Len(disk.csv)
    ELSE 1

\* techStackName and description of the unit in work
UploadName ==
    IF run.mode = "dir" THEN disk.csv[run.unit].name ELSE run.name

UploadDescription == IF run.mode = "dir" THEN <<>> ELSE run.description

\* A bug processDirectory could have: no try/catch around processCSVFile.
UploadFailed_Aborts ==
    [run EXCEPT !.pc = "done", !.exit = 1, !.last = "failed"]

\* processCSVFile threw: --dir logs it and goes on, --file exits with 1.
UploadFailed ==
    IF run.mode = "dir"
    THEN [run EXCEPT !.pc = "file", !.unit = @ + 1, !.last = "failed"]
    ELSE [run EXCEPT !.pc = "done", !.exit = 1, !.last = "failed"]

\* main with --dir <path>, or with --file <path> --name <name>
\* [--description <text>] for the first file of the directory.
UploadStart(mode, name, description) ==
    /\ run.script = "none"
    /\ mode = "file" => disk.csv # <<>>
    /\ run' = [IdleRun EXCEPT !.script = "upload", !.mode = mode,
                              !.name = name, !.description = description,
                              !.pc = "file", !.unit = 1]
    /\ UNCHANGED <<disk, store, resp, norm, roadmaps, reply, github>>

\* The head of processCSVFile: the file is read and parsed and its headers
\* are mapped; without the file, or without a topic column, it throws.
\* After the last file the script ends; so it does when readdirSync threw
\* for want of the directory, which processDirectory catches and logs.
UploadFile ==
    /\ run.script = "upload" /\ run.pc = "file"
    /\ IF run.unit > UploadUnits
       THEN run' = [run EXCEPT !.pc = "done", !.exit = 0,
                               !.last = IF disk.csv = Missing THEN "failed"
                                                              ELSE @]
       ELSE IF disk.csv = Missing
       THEN run' = UploadFailed
       ELSE LET table == PapaParse(disk.csv[run.unit].text)
                hm    == UploadHeaderMapping(table)
            IN  IF Falsy(hm.topic)
                THEN run' = UploadFailed
                ELSE run' = [run EXCEPT !.pc = "rows", !.row = 0,
                                        !.table = table, !.hm = hm,
                                        !.headers = UploadCustomHeaders(hm),
                                        !.map = <<>>]
    /\ UNCHANGED <<disk, store, resp, norm, roadmaps, reply, github>>

\* One call of the data.forEach callback.
UploadRow ==
    /\ run.script = "upload" /\ run.pc = "rows"
    /\ run.row < Len(run.table.data)
    /\ run' = [run EXCEPT
                  !.row = @ + 1,
                  !.map = UploadRowStep(run.map, run.table,
                              run.table.data[run.row + 1], run.hm)]
    /\ UNCHANGED <<disk, store, resp, norm, roadmaps, reply, github>>

\* After forEach: the roadmap items are persisted.
UploadSave ==
    /\ run.script = "upload" /\ run.pc = "rows"
    /\ run.row >= Len(run.table.data)
    /\ LET saved == UploadSink(store, UploadName, UploadDescription,
                               run.headers, MapValues(run.map))
       IN  /\ store' = saved.store
           /\ run' = IF saved.ok
                     THEN [run EXCEPT !.pc = "file", !.unit = @ + 1,
                                      !.last = "saved"]
                     ELSE UploadFailed
    /\ UNCHANGED <<disk, resp, norm, roadmaps, reply, github>>

\* The script's process has ended; another one can be started.
Exit ==
    /\ run.pc = "done"
    /\ run' = IdleRun
    /\ UNCHANGED <<disk, store, resp, norm, roadmaps, reply, github>>

----------------------------------------------------------------------------
(* techStackController.js: the HTTP handlers                               *)
(*                                                                         *)
(* A request body is a record whose absent keys are Undefined. Each        *)
(* handler runs against the store in one step and leaves its response in   *)
(* resp.                                                                   *)

Respond(op, status) == [op |-> op, status |-> status]

\* An id no document has (findById gives null).
NoSuchId == 0

\* req.body.roadmapItems || []
BodyItems(body) ==
    IF body.roadmapItems = Undefined THEN <<>> ELSE body.roadmapItems

\* TechStack.create(req.body); a duplicate key (code 11000) is answered
\* 400, any other error 500.
createTechStack(body) ==
    /\ LET made == SaveNew(store, body.name, body.description,
                           DefaultHeaders, BodyItems(body))
       IN  /\ store' = made.store
           /\ resp' = Respond("createTechStack",
                          IF made.ok THEN 201
                          ELSE IF made.code = 11000 THEN 400 ELSE 500)
    /\ UNCHANGED <<disk, run, norm, roadmaps, reply, github>>

\* TechStack.findByIdAndUpdate(id, req.body, { new, runValidators }): the
\* keys of the body are cast and set; an empty name fails the required
\* validator and a name another document has fails the unique index, both
\* answered 500.
updateTechStack(id, body) ==
    /\ LET pos == findById(store, id)
           nm  == CastText(body.name)
       IN  IF pos = 0
           THEN /\ store' = store
                /\ resp' = Respond("updateTechStack", 404)
           ELSE IF \/ body.name # Undefined /\ Falsy(nm)
                   \/ body.name # Undefined /\ DuplicateKey(store, nm, pos)
           THEN /\ store' = store
                /\ resp' = Respond("updateTechStack", 500)
           ELSE /\ store' =
                     [store EXCEPT
                        ![pos].name = IF body.name = Undefined THEN @ ELSE nm,
                        ![pos].description =
                            IF body.description = Undefined THEN @
                            ELSE CastText(body.description)]
                /\ resp' = Respond("updateTechStack", 200)
    /\ UNCHANGED <<disk, run, norm, roadmaps, reply, github>>

\* TechStack.findByIdAndDelete(id)
deleteTechStack(id) ==
    /\ LET pos == findById(store, id)
       IN  IF pos = 0
           THEN /\ store' = store
                /\ resp' = Respond("deleteTechStack", 404)
           ELSE /\ store' = SelectSeq(store, LAMBDA d : d.id # id)
                /\ resp' = Respond("deleteTechStack", 200)
    /\ UNCHANGED <<disk, run, norm, roadmaps, reply, github>>

\* TechStack.deleteMany({})
deleteAllTechStacks ==
    /\ store' = <<>>
    /\ resp' = Respond("deleteAllTechStacks", 200)
    /\ UNCHANGED <<disk, run, norm, roadmaps, reply, github>>

\* techStack.save() of a loaded document whose roadmapItems were changed:
\* the items are validated; [ok, store].
SaveItems(st, pos, items) ==
    IF ValidItems(items)
    THEN [ok |-> TRUE, store |-> [st EXCEPT ![pos].roadmapItems = items]]
    ELSE [ok |-> FALSE, store |-> st]

\* techStack.roadmapItems.push(req.body); techStack.save()
addRoadmapItem(id, body) ==
    /\ LET pos == findById(store, id)
       IN  IF pos = 0
           THEN /\ store' = store
                /\ resp' = Respond("addRoadmapItem", 404)
           ELSE LET items == store[pos].roadmapItems
                    ids   == {items[i].id : i \in 1..Len(items)}
                    saved == SaveItems(store, pos,
                                 Append(items,
                                     WithId(CastItem(body), FreshId(ids))))
                IN  /\ store' = saved.store
                    /\ resp' = Respond("addRoadmapItem",
                                   IF saved.ok THEN 200 ELSE 500)
    /\ UNCHANGED <<disk, run, norm, roadmaps, reply, github>>

\* { ...item.toObject(), ...req.body }: the keys the body has replace the
\* item's, the _id stays.
Spread(item, body) ==
    [id               |-> item.id,
     topic            |-> IF body.topic = Undefined THEN item.topic
                          ELSE body.topic,
     subTopics        |-> IF body.subTopics = Undefined THEN item.subTopics
                          ELSE body.subTopics,
     projects         |-> IF body.projects = Undefined THEN item.projects
                          ELSE body.projects,
     completionStatus |-> IF body.completionStatus = Undefined
                          THEN item.completionStatus
                          ELSE body.completionStatus]

\* techStack.roadmapItems[itemIndex] = {...}; techStack.save()
updateRoadmapItem(id, itemId, body) ==
    /\ LET pos == findById(store, id)
       IN  IF pos = 0
           THEN /\ store' = store
                /\ resp' = Respond("updateRoadmapItem", 404)
           ELSE LET items     == store[pos].roadmapItems
                    itemIndex == findIndex(items, LAMBDA it : it.id = itemId)
                IN  IF itemIndex = -1
                    THEN /\ store' = store
                         /\ resp' = Respond("updateRoadmapItem", 404)
                    ELSE LET merged == Spread(items[itemIndex + 1], body)
                             saved  == SaveItems(store, pos,
                                 [items EXCEPT ![itemIndex + 1] =
                                     WithId(CastItem(merged), merged.id)])
                         IN  /\ store' = saved.store
                             /\ resp' = Respond("updateRoadmapItem",
                                            IF saved.ok THEN 200 ELSE 500)
    /\ UNCHANGED <<disk, run, norm, roadmaps, reply, github>>

\* techStack.roadmapItems = techStack.roadmapItems.filter(...);
\* techStack.save()
deleteRoadmapItem(id, itemId) ==
    /\ LET pos == findById(store, id)
       IN  IF pos = 0
           THEN /\ store' = store
                /\ resp' = Respond("deleteRoadmapItem", 404)
           ELSE LET saved == SaveItems(store, pos,
                                 SelectSeq(store[pos].roadmapItems,
                                           LAMBDA it : it.id # itemId))
                IN  /\ store' = saved.store
                    /\ resp' = Respond("deleteRoadmapItem",
                                   IF saved.ok THEN 200 ELSE 500)
    /\ UNCHANGED <<disk, run, norm, roadmaps, reply, github>>

----------------------------------------------------------------------------
(* Status Normalizer applied to one text by each of its three copies       *)

Normalize ==
    /\ norm.import = <<>>
    /\ norm' = [norm EXCEPT !.import  = normalizeStatusImport(norm.input),
                            !.convert = normalizeStatusConvert(norm.input),
                            !.upload  = normalizeStatusUpload(norm.input)]
    /\ UNCHANGED <<disk, store, run, resp, roadmaps, reply, github>>

----------------------------------------------------------------------------
(* roadmapRoutes.js, roadmapController.js: the /api/roadmaps router        *)
(*                                                                         *)
(* A request path is the sequence of its segments ("/" is the empty        *)
(* sequence), a route path a sequence of literal segments and parameters.  *)
(* A Roadmap is kept by the fields the handlers test; the other required   *)
(* fields are taken to be given. No body carries a createdDate, so the     *)
(* collection is in the order of createdDate.                              *)

\* The roadmaps the collection takes
MaxRoadmaps == 2

NoReply ==
    [method |-> "none", path |-> <<>>, handler |-> "none", status |-> 0,
     data |-> <<>>]

Lit(text) == [param |-> FALSE, text |-> text]

Param(name) == [param |-> TRUE, text |-> name]

\* router.route(path).get(..).post(..)..., in the order of registration
RoadmapRoutes ==
    <<[path  |-> <<>>,
       stack |-> <<<<"GET", "getAllRoadmaps">>,
                   <<"POST", "createRoadmap">>>>],
      [path  |-> <<Param("id")>>,
       stack |-> <<<<"GET", "getRoadmapById">>,
                   <<"PUT", "updateRoadmap">>,
                   <<"DELETE", "deleteRoadmap">>>>],
      [path  |-> <<Lit("consolidated")>>,
       stack |-> <<<<"GET", "getConsolidatedRoadmaps">>>>],
      [path  |-> <<Lit("company"), Param("companyName")>>,
       stack |-> <<<<"GET", "getRoadmapsByCompany">>>>],
      [path  |-> <<Lit("role"), Param("role")>>,
       stack |-> <<<<"GET", "getRoadmapsByRole">>>>]>>

\* Express: the layer of a route matches a path segment by segment, a
\* parameter matching any segment; the route handles the methods it has a
\* handler for.
MatchesRoute(route, method, path) ==
    /\ Len(route.path) = Len(path)
    /\ \A k \in 1..Len(path) :
          route.path[k].param \/ route.path[k].text = path[k]
    /\ \E h \in 1..Len(route.stack) : route.stack[h][1] = method

\* The router goes through its routes in the order of registration and
\* gives the request to the first that matches: the name of its handler
\* for the method, "none" when no route matches.
Dispatch(routes, method, path) ==
    IF \E i \in 1..Len(routes) : MatchesRoute(routes[i], method, path)
    THEN LET first == CHOOSE i \in 1..Len(routes) :
                        /\ MatchesRoute(routes[i], method, path)
                        /\ \A j \in 1..(i - 1) :
                              ~MatchesRoute(routes[j], method, path)
             mine  == CHOOSE h \in 1..Len(routes[first].stack) :
                        routes[first].stack[h][1] = method
         IN  routes[first].stack[mine][2]
    ELSE "none"

\* The texts that are ObjectIds: 24 hexadecimal digits
ObjectIds == <<"65a000000000000000000001", "65a000000000000000000002",
               "65a000000000000000000003", "65a000000000000000000004">>

\* .sort({ createdDate: -1 })
NewestFirst(docs) == [k \in 1..Len(docs) |-> docs[Len(docs) + 1 - k]]

\* What a handler leaves: the response and the collection.
Handled(status, data, docs) ==
    [status |-> status, data |-> data, roadmaps |-> docs]

\* Roadmap.find().sort({ createdDate: -1 })
getAllRoadmaps(docs) == Handled(200, NewestFirst(docs), docs)

\* Roadmap.findById(req.params.id): a text that is no ObjectId makes the
\* query throw (500); `cast` tells whether the driver takes it for one.
getRoadmapById(docs, id, cast) ==
    IF ~cast THEN Handled(500, <<>>, docs)
    ELSE LET found == SelectSeq(docs, LAMBDA d : d.id = id)
         IN  IF found = <<>> THEN Handled(404, <<>>, docs)
             ELSE Handled(200, found, docs)

\* Roadmap.create(..): the consolidated branch fills in the role; a missing
\* required field is a ValidationError (400).
createRoadmap(docs, body) ==
    LET consolidated == body.isConsolidated /\ body.roles # <<>>
        role == IF consolidated
                THEN OrElse(body.role, <<"C","o","n","s","o","l","i","d",
                                         "a","t","e","d">>)
                ELSE body.role
    IN  IF Falsy(body.companyName) \/ Falsy(role)
        THEN Handled(400, <<>>, docs)
        ELSE LET doc == [id             |-> ObjectIds[
                                FreshId({n \in 1..Len(ObjectIds) :
                                    \E k \in 1..Len(docs) :
                                        docs[k].id = ObjectIds[n]})],
                         companyName    |-> trim(body.companyName),
                         role           |-> trim(role),
                         isConsolidated |-> body.isConsolidated,
                         roles          |-> body.roles]
             IN  Handled(201, <<doc>>, Append(docs, doc))

\* Roadmap.findByIdAndDelete(req.params.id)
deleteRoadmap(docs, id, cast) ==
    IF ~cast THEN Handled(500, <<>>, docs)
    ELSE IF \A k \in 1..Len(docs) : docs[k].id # id
    THEN Handled(404, <<>>, docs)
    ELSE Handled(200, <<>>, SelectSeq(docs, LAMBDA d : d.id # id))

\* Roadmap.find({ isConsolidated: true }).sort({ createdDate: -1 })
getConsolidatedRoadmaps(docs) ==
    Handled(200, NewestFirst(SelectSeq(docs, LAMBDA d : d.isConsolidated)),
            docs)

\* The casts of a path segment to an ObjectId that a build can make: a text
\* of 24 hexadecimal digits is one; a text of 12 characters, such as
\* "consolidated", is one for the drivers that take 12 bytes for an id and
\* none for the others; any other text is none.
CastOutcomes(segment) ==
    IF \E n \in 1..Len(ObjectIds) : ObjectIds[n] = segment THEN {TRUE}
    ELSE IF segment = "consolidated" THEN {TRUE, FALSE}
    ELSE {FALSE}

\* A request to /api/roadmaps: the router dispatches it and the handler
\* answers it. (updateRoadmap, getRoadmapsByCompany and getRoadmapsByRole are
\* routed but not requested here.)
RoadmapsRequest(method, path, body) ==
    LET handler == Dispatch(RoadmapRoutes, method, path)
    IN  /\ handler \in {"none", "getAllRoadmaps", "createRoadmap",
                        "getRoadmapById", "deleteRoadmap",
                        "getConsolidatedRoadmaps"}
        /\ handler = "createRoadmap" => Len(roadmaps) < MaxRoadmaps
        /\ \E cast \in (IF path = <<>> THEN {TRUE}
                        ELSE CastOutcomes(path[1])) :
             LET done ==
                   CASE handler = "getAllRoadmaps" -> getAllRoadmaps(roadmaps)
                     [] handler = "createRoadmap" ->
                            createRoadmap(roadmaps, body)
                     [] handler = "getRoadmapById" ->
                            getRoadmapById(roadmaps, path[1], cast)
                     [] handler = "deleteRoadmap" ->
                            deleteRoadmap(roadmaps, path[1], cast)
                     [] handler = "getConsolidatedRoadmaps" ->
                            getConsolidatedRoadmaps(roadmaps)
                     [] OTHER -> Handled(404, <<>>, roadmaps)
             IN  /\ roadmaps' = done.roadmaps
                 /\ reply' = [method |-> method, path |-> path,
                              handler |-> handler, status |-> done.status,
                              data |-> done.data]
        /\ UNCHANGED <<disk, store, run, resp, norm, github>>

----------------------------------------------------------------------------
(* githubController.js: uploadRoadmap                                      *)
(*                                                                         *)
(* The repository holds, for every filename, the content of the last       *)
(* accepted PUT, or nothing. A request is a record of the handler's        *)
(* locals and of what it sent and received: an await is the end of a step. *)

\* The uploads that are started
MaxRequests == 2

\* No file in the repository; no request
NoGithub == [token |-> TRUE, files |-> <<>>, reqs |-> <<>>]

IdleRequest ==
    [pc       |-> "idle",     \* "idle", "lookup", "put", "done"
     filename |-> Undefined,
     content  |-> Undefined,
     looked   |-> 0,          \* the status of the lookup; -1: fetch threw
     gotSha   |-> Undefined,  \* data.sha of the lookup's response
     sha      |-> Undefined,  \* let sha
     sent     |-> FALSE,      \* the PUT has been sent
     sentSha  |-> Undefined,  \* requestBody.sha
     put      |-> 0,          \* the status of the PUT; -1: fetch threw
     answer   |-> 0]          \* res.status(..)

\* The sha GitHub gives a blob: a function of its content
ShaOf(content) == <<"#">> \o content

\* The file of the repository: Undefined when there is none.
FileAt(files, filename) ==
    IF \E i \in 1..Len(files) : files[i].key = filename
    THEN MapGet(files, filename) ELSE Undefined

\* GET /repos/../contents/<filename>
GetContents(files, filename) ==
    IF FileAt(files, filename) = Undefined
    THEN [status |-> 404, sha |-> Undefined]
    ELSE [status |-> 200, sha |-> ShaOf(FileAt(files, filename))]

\* PUT /repos/../contents/<filename>: creates the file (201) when there is
\* none and no sha is given, updates it (200) when the sha given is the one
\* of the file, and refuses otherwise (422 without sha, 409 with another).
PutContents(files, filename, sha, content) ==
    LET file == FileAt(files, filename)
    IN  IF file = Undefined /\ sha = Undefined
        THEN [status |-> 201, files |-> MapSet(files, filename, content)]
        ELSE IF file # Undefined /\ sha = ShaOf(file)
        THEN [status |-> 200, files |-> MapSet(files, filename, content)]
        ELSE [status |-> IF sha = Undefined THEN 422 ELSE 409,
              files |-> files]

\* A handler that answers 201 whatever the PUT came back with.
UploadAnswer_Unchecked(status) == 201

\* if (uploadResponse.status !== 201 && uploadResponse.status !== 200)
\* throw ..; res.status(201); the catch answers 500
UploadAnswer(status) == IF status # 201 /\ status # 200 THEN 500 ELSE 201

\* uploadRoadmap up to its first await: the body and the token are tested.
uploadRoadmap(r, body) ==
    /\ r = Len(github.reqs) + 1 /\ r <= MaxRequests
    /\ github' =
         [github EXCEPT !.reqs = Append(@,
             IF Falsy(body.filename) \/ Falsy(body.content)
             THEN [IdleRequest EXCEPT !.pc = "done", !.answer = 400]
             ELSE IF ~github.token
             THEN [IdleRequest EXCEPT !.pc = "done", !.answer = 500]
             ELSE [IdleRequest EXCEPT !.pc = "lookup",
                                      !.filename = body.filename,
                                      !.content = body.content])]
    /\ UNCHANGED <<disk, store, run, resp, norm, roadmaps, reply>>

\* "Check if file already exists": the GET and what is made of its
\* response; a fetch that throws is caught and leaves sha undefined.
uploadRoadmapLookup(r) ==
    /\ r \in 1..Len(github.reqs) /\ github.reqs[r].pc = "lookup"
    /\ \E delivered \in BOOLEAN :
         LET response == GetContents(github.files, github.reqs[r].filename)
         IN  github' =
               [github EXCEPT
                   !.reqs[r].pc = "put",
                   !.reqs[r].looked =
                       IF delivered THEN response.status ELSE -1,
                   !.reqs[r].gotSha =
                       IF delivered THEN response.sha ELSE Undefined,
                   !.reqs[r].sha =
                       IF delivered /\ response.status = 200
                       THEN response.sha ELSE Undefined]
    /\ UNCHANGED <<disk, store, run, resp, norm, roadmaps, reply>>

\* "Upload or update the file": the PUT, with the sha if there is one, and
\* the answer to the request; a fetch that throws is answered 500.
uploadRoadmapPut(r) ==
    /\ r \in 1..Len(github.reqs) /\ github.reqs[r].pc = "put"
    /\ \E delivered \in BOOLEAN :
         LET req      == github.reqs[r]
             sha      == IF ~Falsy(req.sha) THEN req.sha ELSE Undefined
             response == PutContents(github.files, req.filename, sha,
                                     req.content)
         IN  github' =
               [github EXCEPT
                   !.files = IF delivered THEN response.files ELSE @,
                   !.reqs[r].pc = "done",
                   !.reqs[r].sent = TRUE,
                   !.reqs[r].sentSha = sha,
                   !.reqs[r].put =
                       IF delivered THEN response.status ELSE -1,
                   !.reqs[r].answer =
                       IF delivered THEN UploadAnswer(response.status)
                       ELSE 500]
    /\ UNCHANGED <<disk, store, run, resp, norm, roadmaps, reply>>

----------------------------------------------------------------------------
(* Inputs                                                                  *)

MaxRows == 3

\* All sequences over S of at most n elements.
SeqsUpTo(S, n) == UNION {[1..k -> S] : k \in 0..n}

T_A  == <<"A">>
T_B  == <<"B">>
T_sA == <<" ","A"," ">>
T_x  == <<"x">>
T_y  == <<"y">>
T_S  == <<"S">>
T_R  == <<"R">>

D_Done    == <<"D","o","n","e">>
D_ongoing == <<"o","n","g","o","i","n","g">>
D_todo    == <<"t","o","d","o">>

\* A header row every resolver maps fully: Topic, Sub-Topics, Projects,
\* Status
Header4 == <<L_Topic, L_SubTopics, L_Projects, L_Status>>

\* A sheet, and a CSV file, of Header4 and the data rows.
Sheet(name, data) == [name |-> name, rows |-> <<Header4>> \o data]

CsvFile(name, data) ==
    [name |-> name, text |-> CsvContent(<<Header4>> \o data)]

Tables(Rows) == SeqsUpTo(Rows, MaxRows)

\* wb.xlsx with the one sheet S; no CSV file
XlsxDisks(Rows) ==
    {[xlsx |-> <<Sheet(T_S, data)>>, csv |-> <<>>] : data \in Tables(Rows)}

\* a directory with the one file S.csv; a workbook without sheets
CsvDisks(Rows) ==
    {[xlsx |-> <<>>, csv |-> <<CsvFile(T_S, data)>>] : data \in Tables(Rows)}

\* wb.xlsx with the sheet S, and R.csv with the same rows
BothDisks(Rows) ==
    {[xlsx |-> <<Sheet(T_S, data)>>, csv |-> <<CsvFile(T_R, data)>>] :
        data \in Tables(Rows)}

InitWith(Disks) ==
    /\ disk \in Disks
    /\ store = <<>>
    /\ run = IdleRun
    /\ resp = [op |-> "none", status |-> 0]
    /\ norm = [input |-> <<>>, import |-> <<>>, convert |-> <<>>,
               upload |-> <<>>]
    /\ roadmaps = <<>>
    /\ reply = NoReply
    /\ github = NoGithub

\* upload --dir <path>
NextUploadDir ==
    UploadStart("dir", <<>>, <<>>) \/ UploadFile \/ UploadRow \/ UploadSave

TopicRows ==
    {<<t, s, <<>>, <<>>>> : t \in {<<>>, T_A, T_sA, T_B}, s \in {<<>>, T_x}}

\* import --file wb.xlsx, over sheets that vary in their topic cells
SpecImportTopics == InitWith(XlsxDisks(TopicRows)) /\ [][NextImport]_vars

SubTopicRows ==
    {<<t, s, <<>>, <<>>>> :
        t \in {<<>>, T_A, T_B},
        s \in {<<>>, <<" ","y","\r","\n","x","\n">>, <<"\n">>, <<"x"," ">>}}

\* import --file wb.xlsx, over sheets that vary in their sub-topic cells
SpecImportSubTopics ==
    InitWith(XlsxDisks(SubTopicRows)) /\ [][NextImport]_vars

UploadRows ==
    {<<t, s, p, <<>>>> :
        t \in {<<>>, T_A, T_sA},
        s \in {<<>>, T_x, <<"x","\n","x">>},
        p \in {<<>>, <<"p","\n","p">>}}

\* upload --dir <path>, over files that vary in their topic, sub-topic and
\* project cells
SpecUpload == InitWith(CsvDisks(UploadRows)) /\ [][NextUploadDir]_vars

StatusRows ==
    {<<t, <<>>, <<>>, c>> :
        t \in {<<>>, T_A, T_B}, c \in {D_Done, D_ongoing, D_todo}}

\* import --file wb.xlsx and upload --dir <path>, one after the other in
\* either order, over rows that vary in their topic and status cells
SpecStatus ==
    InitWith(BothDisks(StatusRows))
        /\ [][NextImport \/ NextUploadDir \/ Exit]_vars

\* Status cells: a prefix, a word and a suffix, in mixed case; and no cell.
StatusPrefixes ==
    {<<>>, <<"P","a","r","t","i","a","l","l","y"," ">>, <<"I","n"," ">>,
     <<"N","O","T"," ">>}

StatusWords ==
    {<<>>, K_complete, <<"C","O","M","P","L","E","T","E","D">>, D_Done,
     <<"F","i","n","i","s","h","e","d">>, K_progress,
     <<"O","n","G","o","i","n","g">>, K_partial, D_todo,
     <<"c","o","m","p","l">>, YetToStart}

StatusSuffixes == {<<>>, <<"!">>, <<" ","p","r","o","g","r","e","s","s">>}

StatusTexts ==
    {Undefined} \cup
    {p \o w \o s : p \in StatusPrefixes, w \in StatusWords,
                   s \in StatusSuffixes}

\* normalizeStatus called on one status text
InitNormalize ==
    /\ disk = [xlsx |-> <<>>, csv |-> <<>>]
    /\ store = <<>>
    /\ run = IdleRun
    /\ resp = Respond("none", 0)
    /\ norm \in {[input |-> t, import |-> <<>>, convert |-> <<>>,
                  upload |-> <<>>] : t \in StatusTexts}
    /\ roadmaps = <<>>
    /\ reply = NoReply
    /\ github = NoGithub

SpecNormalize == InitNormalize /\ [][Normalize]_vars

RoundRows ==
    {<<t, s, <<>>, c>> :
        t \in {<<>>, T_A}, s \in {<<>>, T_x, T_y}, c \in {<<>>, D_Done}}

\* upload --file <dir>/S.csv --name R
NextUploadFile ==
    UploadStart("file", T_R, <<>>) \/ UploadFile \/ UploadRow \/ UploadSave

\* import --file wb.xlsx gives TechStack S; convert --file wb.xlsx and
\* upload --file S.csv --name R give TechStack R
SpecRoundTrip ==
    InitWith(XlsxDisks(RoundRows))
        /\ [][NextImport \/ NextConvert \/ NextUploadFile \/ Exit]_vars

MaxItems == 2

T_Q == <<"Q">>
T_Z == <<"Z">>

\* wb.xlsx with the sheet S and the directory with R.csv
StoreDisk ==
    [xlsx |-> <<Sheet(T_S, <<<<T_A, T_x, <<>>, D_Done>>,
                             <<T_B, <<>>, <<>>, <<>>>>>>)>>,
     csv  |-> <<CsvFile(T_R, <<<<T_A, T_y, <<>>, <<>>>>>>)>>]

\* Request bodies
TechStackBodies ==
    {[name |-> n, description |-> Undefined, roadmapItems |-> Undefined] :
        n \in {Undefined, T_S, <<" ","S">>, T_Q}}

UpdateBodies ==
    {[name |-> n, description |-> Undefined] : n \in {<<>>, T_S, T_Q}}

ItemBodies ==
    {[topic |-> t, subTopics |-> Undefined, projects |-> Undefined,
      completionStatus |-> c] :
        t \in {Undefined, T_A, T_Z}, c \in {Undefined, Completed}}

\* The ids a request can name: those of the documents (of the items of the
\* document `id`), and one that nothing has.
RequestIds == {store[i].id : i \in 1..Len(store)} \cup {NoSuchId}

ItemIdsOf(id) ==
    LET pos == findById(store, id)
    IN  IF pos = 0 THEN {NoSuchId}
        ELSE {store[pos].roadmapItems[i].id :
                 i \in 1..Len(store[pos].roadmapItems)} \cup {NoSuchId}

\* The requests for TechStacks
NextTechStacks ==
    \/ \E body \in TechStackBodies : createTechStack(body)
    \/ \E id \in RequestIds, body \in UpdateBodies : updateTechStack(id, body)
    \/ \E id \in RequestIds : deleteTechStack(id)
    \/ deleteAllTechStacks

\* The requests for roadmap items; a TechStack takes no more than MaxItems
\* by request.
NextRoadmapItems ==
    \/ \E id \in RequestIds, body \in ItemBodies :
          /\ findById(store, id) # 0 =>
                Len(store[findById(store, id)].roadmapItems) < MaxItems
          /\ addRoadmapItem(id, body)
    \/ \E id \in RequestIds :
          \E itemId \in ItemIdsOf(id), body \in ItemBodies :
              updateRoadmapItem(id, itemId, body)
    \/ \E id \in RequestIds :
          \E itemId \in ItemIdsOf(id) : deleteRoadmapItem(id, itemId)

\* The server's requests for TechStacks while the scripts ingest
SpecNames ==
    InitWith({StoreDisk})
        /\ [][NextImport \/ NextUploadDir \/ Exit \/ NextTechStacks]_vars

\* POST / with the name alone in the body
CreateNamed(name) ==
    createTechStack([name |-> name, description |-> Undefined,
                     roadmapItems |-> Undefined])

\* POST /:id/roadmap-item with the topic alone in the body
AddTopic(topic) ==
    \E id \in RequestIds \ {NoSuchId} :
        /\ Len(store[findById(store, id)].roadmapItems) < MaxItems
        /\ addRoadmapItem(id, [topic |-> topic, subTopics |-> Undefined,
                               projects |-> Undefined,
                               completionStatus |-> Undefined])

\* The scripts ingest sheet S and R.csv, again and again, while TechStacks
\* S and Q are created and get the item Z by request
SpecSink ==
    InitWith({StoreDisk})
        /\ [][\/ NextImport \/ NextUploadDir \/ Exit
              \/ \E name \in {T_S, T_Q} : CreateNamed(name)
              \/ AddTopic(T_Z)]_vars

\* The server's requests for the roadmap items of TechStack R while R.csv
\* is uploaded
SpecItems ==
    InitWith({StoreDisk})
        /\ [][\/ NextUploadDir \/ Exit \/ CreateNamed(T_R)
              \/ NextRoadmapItems]_vars

\* Sheet and file names
N_README       == <<"R","E","A","D","M","E">>
N_ReadMe       == <<"R","e","a","d","M","e">>
N_Instructions == <<"I","n","s","t","r","u","c","t","i","o","n","s">>
N_Read         == <<"R","e","a","d">>

NoteRows ==
    {<<t, s, <<>>, <<>>>> : t \in {<<>>, T_A}, s \in {<<>>, T_x}}

\* Two data rows with the topics B and A
TwoTopics == <<<<T_B, <<>>, <<>>, <<>>>>, <<T_A, T_y, <<>>, D_Done>>>>

\* wb.xlsx with a first sheet of one of the names, whatever its rows, and
\* the sheet S after it
NamedSheetDisks ==
    {[xlsx |-> <<Sheet(n, data), Sheet(T_S, TwoTopics)>>, csv |-> <<>>] :
        n \in {K_readme, N_README, N_ReadMe, K_instructions, N_Instructions,
               N_Read},
        data \in Tables(NoteRows)}

\* import --file wb.xlsx and convert --file wb.xlsx, in any order
SpecSkipNames ==
    InitWith(NamedSheetDisks) /\ [][NextImport \/ NextConvert \/ Exit]_vars

\* A directory with a first file of one of the names, whatever its rows,
\* and S.csv after it
NamedCsvDisks ==
    {[xlsx |-> <<>>, csv |-> <<CsvFile(n, data), CsvFile(T_S, TwoTopics)>>] :
        n \in {K_readme, N_README, N_ReadMe, K_instructions, N_Instructions,
               N_Read},
        data \in Tables(NoteRows)}

\* upload --dir <path>, over directories with a ReadMe file
SpecDirNames == InitWith(NamedCsvDisks) /\ [][NextUploadDir \/ Exit]_vars

\* wb.xlsx with the one sheet S: without any row, with the header row only,
\* or with up to MaxRows data rows
ShortSheetDisks ==
    XlsxDisks(NoteRows)
        \cup {[xlsx |-> <<[name |-> T_S, rows |-> <<>>]>>, csv |-> <<>>]}

\* import --file wb.xlsx and convert --file wb.xlsx, over short sheets
SpecShortSheets ==
    InitWith(ShortSheetDisks) /\ [][NextImport \/ NextConvert \/ Exit]_vars

N_Name == <<"N","a","m","e">>

\* Header rows of two columns: two that no resolver maps to the topic
\* field, and one with a topic column
TwoColumnHeaders ==
    {<<N_Name, L_Status>>, <<L_Projects, L_Status>>, <<L_Topic, L_Status>>}

TwoColumnRows == {<<a, c>> : a \in {<<>>, T_A}, c \in {<<>>, D_Done}}

\* wb.xlsx with the sheets Q and S, and a directory with Q.csv and R.csv:
\* Q has one of the two-column header rows, S and R are well-formed
HeaderDisks ==
    {[xlsx |-> <<[name |-> T_Q, rows |-> <<h>> \o data],
                 Sheet(T_S, TwoTopics)>>,
      csv  |-> <<[name |-> T_Q, text |-> CsvContent(<<h>> \o data)],
                 CsvFile(T_R, TwoTopics)>>] :
        h \in TwoColumnHeaders, data \in Tables(TwoColumnRows)}

\* import --file wb.xlsx and upload --dir <path>, in any order
SpecNoTopicColumn ==
    InitWith(HeaderDisks) /\ [][NextImport \/ NextUploadDir \/ Exit]_vars

\* Header texts
H_Technology  == <<"T","e","c","h","n","o","l","o","g","y">>
H_Task        == <<"T","a","s","k">>
H_Application == <<"A","p","p","l","i","c","a","t","i","o","n">>

\* wb.xlsx with the sheet S and a directory with R.csv, both of a header row
\* of two columns and the same two data rows with the topics A and B
SynonymDisks ==
    {[xlsx |-> <<[name |-> T_S, rows |-> table]>>,
      csv  |-> <<[name |-> T_R, text |-> CsvContent(table)]>>] :
        table \in {<<<<h1, h2>>, <<T_A, T_x>>, <<T_B, <<>>>>>> :
                      h1 \in {L_Topic, H_Technology, N_Name},
                      h2 \in {L_Projects, L_ProjectTask, H_Task,
                              H_Application, L_Status}}}

\* import --file, convert --file and upload --dir, in any order, over header
\* rows written with the synonyms of the fields
SpecSynonyms ==
    InitWith(SynonymDisks)
        /\ [][NextImport \/ NextConvert \/ NextUploadDir \/ Exit]_vars

N_sS == <<" ","S">>

\* The rows of the second unit: none, a row with a project cell of one
\* space, the same after a row without topic, a good row
FailTables ==
    {<<>>, <<<<T_A, <<>>, <<" ">>, <<>>>>>>,
     <<<<<<>>, T_x, <<>>, <<>>>>, <<T_A, <<>>, <<" ">>, <<>>>>>>,
     <<<<T_A, T_x, <<>>, <<>>>>>>}

\* wb.xlsx with three sheets and a directory with three files of the same
\* names and rows: S, then " S" or R with any rows, then Q. Once S is
\* stored the name " S" is refused by the unique index; a project cell of
\* one space is refused by the schema when it comes from a CSV file.
FailDisks ==
    {[xlsx |-> <<Sheet(T_S, TwoTopics), Sheet(n, data),
                 Sheet(T_Q, TwoTopics)>>,
      csv  |-> <<CsvFile(T_S, TwoTopics), CsvFile(n, data),
                 CsvFile(T_Q, TwoTopics)>>] :
        n \in {N_sS, T_R}, data \in FailTables}

\* A script is in its loop: one of its steps can be taken.
Running == run.script \in {"import", "upload"} /\ run.pc # "done"

\* A step of the script that runs
RunStep ==
    \/ ImportSheet \/ ImportRow \/ ImportSave
    \/ UploadFile \/ UploadRow \/ UploadSave

\* import --file wb.xlsx and upload --dir <path>, in any order. A script
\* that has been started runs on: its loops are sequential code whose awaits
\* return or throw. This is weak fairness of RunStep, WF_vars(RunStep),
\* stated with ENABLED <<RunStep>>_vars written out as Running.
SpecFailures ==
    /\ InitWith(FailDisks)
    /\ [][NextImport \/ NextUploadDir \/ Exit]_vars
    /\ ([]<>(~Running) \/ []<><<RunStep>>_vars)

\* A workbook wb.xlsx with the sheet S, or none; a directory with R.csv,
\* or none
MissingDisks ==
    {[xlsx |-> x, csv |-> c] :
        x \in {Missing, <<Sheet(T_S, TwoTopics)>>},
        c \in {Missing, <<CsvFile(T_R, TwoTopics)>>}}

\* Every entry point, in any order: import --file wb.xlsx, convert --file
\* wb.xlsx --out <dir>, upload --dir <dir>, upload --file <dir>/R.csv
\* --name Q
SpecMissing ==
    InitWith(MissingDisks)
        /\ [][\/ NextImport \/ NextConvert \/ NextUploadDir
              \/ UploadStart("file", T_Q, <<>>) \/ Exit]_vars

BlankTopicRows ==
    {<<t, s, <<>>, <<>>>> : t \in {<<>>, <<" ">>, T_A}, s \in {<<>>, T_x}}

\* upload --dir <path>, over files whose topic cells are empty, blank or A
SpecBlankTopics ==
    InitWith(CsvDisks(BlankTopicRows)) /\ [][NextUploadDir]_vars

\* wb.xlsx with the sheet Q, whose topic cells are empty, blank or A, and
\* the sheet S after it
BlankTopicDisks ==
    {[xlsx |-> <<Sheet(T_Q, data), Sheet(T_S, TwoTopics)>>, csv |-> <<>>] :
        data \in Tables(BlankTopicRows)}

\* import --file wb.xlsx, over sheets with rows that name no topic
SpecNoTopicRows == InitWith(BlankTopicDisks) /\ [][NextImport \/ Exit]_vars

\* Cells with the characters the CSV output has to escape
E_comma == <<"a",",","b">>
E_quote == <<"q","\"","q">>
E_lf    == <<"l","\n","m">>
E_cr    == <<"c","\r","d">>
E_mixed == <<"\"","x",",","\"","\r","\n">>

EscapeRows ==
    {<<t, s, <<>>, <<>>>> :
        t \in {T_A, E_comma, E_quote, E_lf, E_cr, <<" ">>},
        s \in {<<>>, E_mixed}}

\* convert --file wb.xlsx, over sheets whose cells need escaping
SpecEscape == InitWith(XlsxDisks(EscapeRows)) /\ [][NextConvert]_vars

\* import --file wb.xlsx and upload --dir <path>, over rows whose topics
\* come back after other topics
SpecOrder ==
    InitWith(BothDisks(TopicRows))
        /\ [][NextImport \/ NextUploadDir \/ Exit]_vars

\* import --file wb.xlsx and upload --dir <path>, in any order, over three
\* units of which the second may fail
SpecSequence ==
    InitWith(FailDisks) /\ [][NextImport \/ NextUploadDir \/ Exit]_vars

T_p == <<"p">>

P_lines == <<"p", "\r", "\n", " ", "x", "\n", "p">>

\* Rows with and without a topic, the topic cell of one being a blank, that
\* carry sub-topics, a project cell of one or of three lines, and a status
CarryRows ==
    {<<T_A, <<>>, <<>>, <<>>>>, <<T_B, T_x, <<>>, D_todo>>,
     <<<<>>, T_x, T_p, D_Done>>, <<<<" ">>, T_y, P_lines, D_ongoing>>,
     <<<<>>, <<>>, <<>>, <<>>>>}

\* import --file wb.xlsx, over sheets whose rows lean on the topic above
SpecCarry == InitWith(XlsxDisks(CarryRows)) /\ [][NextImport]_vars

\* Header rows with the sub-topic column left and right of the topic column
SwappedHeader == <<L_SubTopics, L_Topic>>

\* wb.xlsx with the sheet S and a directory with R.csv, both of a header row
\* of the two columns in either order and the same two data rows
HeaderOrderDisks ==
    {[xlsx |-> <<[name |-> T_S, rows |-> <<h>> \o data]>>,
      csv  |-> <<[name |-> T_R, text |-> CsvContent(<<h>> \o data)]>>] :
        h \in {SwappedHeader, <<L_Topic, L_SubTopics>>},
        data \in [1..2 -> {<<T_x, T_A>>, <<T_y, T_B>>, <<<<>>, T_A>>,
                           <<T_x, <<>>>>}]}

\* import --file, convert --file and upload --dir, in any order, over header
\* rows with the two columns in either order
SpecHeaderOrder ==
    InitWith(HeaderOrderDisks)
        /\ [][NextImport \/ NextConvert \/ NextUploadDir \/ Exit]_vars

\* Bodies of POST /api/roadmaps
RoadmapBodies ==
    {[companyName |-> c, role |-> r, isConsolidated |-> b, roles |-> rs] :
        c \in {Undefined, T_A}, r \in {Undefined, T_x}, b \in BOOLEAN,
        rs \in {<<>>, <<T_y>>}}

\* /, /<an id>, /consolidated and /zzz
RequestPaths ==
    {<<>>, <<ObjectIds[1]>>, <<ObjectIds[2]>>, <<"consolidated">>,
     <<"zzz">>}

\* Requests to /api/roadmaps, in any order
SpecRoutes ==
    InitWith({StoreDisk})
        /\ [][\E method \in {"GET", "POST", "DELETE"}, path \in RequestPaths,
                 body \in RoadmapBodies :
                   RoadmapsRequest(method, path, body)]_vars

F_a == <<"a",".","h","t","m","l">>
F_b == <<"b",".","h","t","m","l">>
C_1 == <<"1">>
C_2 == <<"2">>

\* Bodies of POST /api/github/upload
UploadBodies ==
    {[filename |-> f, content |-> c] :
        f \in {Undefined, F_a, F_b}, c \in {<<>>, C_1, C_2}}

\* The server with or without a token, the repository with or without the
\* file a.html
InitGithub ==
    /\ disk = StoreDisk
    /\ store = <<>>
    /\ run = IdleRun
    /\ resp = Respond("none", 0)
    /\ norm = [input |-> <<>>, import |-> <<>>, convert |-> <<>>,
               upload |-> <<>>]
    /\ roadmaps = <<>>
    /\ reply = NoReply
    /\ github \in {[token |-> t, files |-> fs, reqs |-> <<>>] :
                      t \in BOOLEAN,
                      fs \in {<<>>, MapSet(<<>>, F_a, C_1)}}

\* Uploads of roadmaps, up to MaxRequests of them in flight together
SpecGithub ==
    InitGithub
        /\ [][\E r \in 1..MaxRequests :
                 \/ \E body \in UploadBodies : uploadRoadmap(r, body)
                 \/ uploadRoadmapLookup(r)
                 \/ uploadRoadmapPut(r)]_vars

----------------------------------------------------------------------------
(* Properties                                                              *)

\* The data rows of the sheet in work that the row loop has consumed.
ConsumedRows ==
    LET jsonData == disk.xlsx[run.unit].rows
    IN  [i \in 1..(run.row - 1) |-> jsonData[i + 1]]

InImportRows == run.script = "import" /\ run.pc = "rows"

\* No two items of the list have the same topic.
UniqueTopics(items) ==
    \A i, j \in 1..Len(items) : i # j => items[i].topic # items[j].topic

\* The elements of xs without repetition, in order of first occurrence.
RECURSIVE DistinctInOrder(_)
DistinctInOrder(xs) ==
    IF xs = <<>> THEN <<>>
    ELSE LET front == DistinctInOrder(SubSeq(xs, 1, Len(xs) - 1))
             last  == xs[Len(xs)]
         IN  IF \E i \in 1..Len(front) : front[i] = last
             THEN front ELSE Append(front, last)

RECURSIVE Flatten(_)
Flatten(xss) == IF xss = <<>> THEN <<>> ELSE Head(xss) \o Flatten(Tail(xss))

\* The trimmed non-empty lines of a cell, a line ending at LF or CRLF.
LineTokens(cell) == SelectSeq(MapSeq(trim, splitLines(cell)), NonEmpty)

\* Carry-forward: the topic row k of `data` belongs to, which is the trimmed
\* topic cell (column 1 of Header4) of the last row up to k that has one;
\* Null before the first.
RECURSIVE CarriedTopic(_, _)
CarriedTopic(data, k) ==
    IF k = 0 THEN Null
    ELSE IF trim(data[k][1]) # <<>> THEN trim(data[k][1])
    ELSE CarriedTopic(data, k - 1)

\* The cells of column `col` of the rows of `data` that belong to `topic`.
CellsOf(data, topic, col) ==
    LET mine == SelectSeq([k \in 1..Len(data) |-> k],
                          LAMBDA k : CarriedTopic(data, k) = topic)
    IN  [n \in 1..Len(mine) |-> data[mine[n]][col]]

\* C1: workbook import: at every point of the row loop the aggregated
\* items have pairwise distinct topics, and their topics are exactly the
\* trimmed non-empty topic cells consumed so far (a repeated topic, adjacent
\* or not, is merged, not duplicated and not dropped); the same holds of
\* every stored TechStack.
C1_ImportTopicsUnique ==
    /\ InImportRows =>
         LET items == MapValues(run.map)
         IN  /\ UniqueTopics(items)
             /\ {items[i].topic : i \in 1..Len(items)} =
                  {trim(ConsumedRows[k][1]) : k \in 1..Len(ConsumedRows)}
                      \ {<<>>}
    /\ \A d \in 1..Len(store) : UniqueTopics(store[d].roadmapItems)

\* The sheet A, B, " A " has been imported: two items, A first.
C1_Witness ==
    /\ run.script = "import" /\ run.pc = "sheet" /\ run.unit = 2
    /\ LET rows == disk.xlsx[1].rows
       IN  /\ Len(rows) = 4
           /\ rows[2][1] = T_A /\ rows[3][1] = T_B /\ rows[4][1] = T_sA
    /\ Len(store) = 1
    /\ Len(store[1].roadmapItems) = 2
    /\ store[1].roadmapItems[1].topic = T_A

\* C4: workbook import: at every point of the row loop, the subTopics of
\* every topic are the distinct trimmed non-empty line tokens of the
\* sub-topic cells (column 2) of the consumed rows that belong to the topic,
\* in order of first occurrence.
C4_ImportSubTopicsDistinctTokens ==
    InImportRows =>
      \A i \in 1..Len(run.map) :
        run.map[i].val.subTopics =
          DistinctInOrder(Flatten(MapSeq(LineTokens,
              CellsOf(ConsumedRows, run.map[i].key, 2))))

\* Topic A got "x ", then a carried row with " y\r\nx\n", then a blank
\* cell: the tokens x, y, x are aggregated as x, y.
C4_Witness ==
    /\ InImportRows /\ run.row = 4
    /\ ConsumedRows[1][1] = T_A /\ ConsumedRows[1][2] = <<"x"," ">>
    /\ ConsumedRows[2][1] = <<>>
    /\ ConsumedRows[2][2] = <<" ","y","\r","\n","x","\n">>
    /\ ConsumedRows[3][1] = <<>> /\ ConsumedRows[3][2] = <<"\n">>
    /\ MapGet(run.map, T_A).subTopics = <<T_x, T_y>>

\* No element occurs twice in the sequence.
NoRepeat(xs) == \A i, j \in 1..Len(xs) : i # j => xs[i] # xs[j]

\* C2: CSV upload: no two roadmapItems of a persisted TechStack have the
\* same topic, the persisted topic being the topic after the schema's trim;
\* rows whose topic cells differ only in surrounding whitespace end up in
\* one item.
C2_UploadPersistedTopicsUnique ==
    \A d \in 1..Len(store) : UniqueTopics(store[d].roadmapItems)

\* C5: CSV upload: in every aggregated RoadmapItem, during the row loop and
\* once persisted, no two subTopics and no two projects have the same name.
C5_UploadNamesUnique ==
    /\ run.script = "upload" /\ run.pc = "rows" =>
         \A i \in 1..Len(run.map) :
            /\ NoRepeat(run.map[i].val.subTopics)
            /\ NoRepeat(run.map[i].val.projects)
    /\ \A d \in 1..Len(store) :
         \A i \in 1..Len(store[d].roadmapItems) :
            /\ NoRepeat(store[d].roadmapItems[i].subTopics)
            /\ NoRepeat(store[d].roadmapItems[i].projects)

\* The order "Yet to Start" < "In Progress" < "Completed"
Rank(status) ==
    CASE status = YetToStart -> 0
      [] status = InProgress -> 1
      [] status = Completed  -> 2

\* C3: in both row loops, every step that consumes a row of the sheet or
\* file in work keeps every topic aggregated so far, and the rank of its
\* completionStatus does not go down: Completed stays Completed, and In
\* Progress does not go back to Yet to Start.
C3_StatusNeverDecreases ==
    [][(/\ run.pc = "rows" /\ run'.pc = "rows"
        /\ run'.script = run.script /\ run'.unit = run.unit)
       => \A i \in 1..Len(run.map) :
            LET topic == run.map[i].key
            IN  /\ MapHas(run'.map, topic)
                /\ Rank(MapGet(run'.map, topic).completionStatus)
                     >= Rank(run.map[i].val.completionStatus)]_vars

\* Sheet S and file R.csv both hold the rows (A, Done), (A, ongoing),
\* (A, todo) and both have been ingested: A is Completed in both TechStacks.
C3_Witness ==
    /\ Len(disk.xlsx) = 1 /\ Len(disk.xlsx[1].rows) = 4
    /\ \A k \in 2..4 : disk.xlsx[1].rows[k][1] = T_A
    /\ disk.xlsx[1].rows[2][4] = D_Done
    /\ disk.xlsx[1].rows[3][4] = D_ongoing
    /\ disk.xlsx[1].rows[4][4] = D_todo
    /\ Len(store) = 2
    /\ \A d \in 1..2 :
         /\ Len(store[d].roadmapItems) = 1
         /\ store[d].roadmapItems[1].topic = T_A
         /\ store[d].roadmapItems[1].completionStatus = Completed

\* The word occurs in the text as a contiguous piece.
Occurs(word, text) ==
    \E i \in 1..Len(text) :
        /\ i + Len(word) - 1 <= Len(text)
        /\ SubSeq(text, i, i + Len(word) - 1) = word

\* The reference rule for a status text.
ReferenceStatus(text) ==
    IF text = Undefined \/ text = <<>> THEN YetToStart
    ELSE LET lower == toLowerCase(text)
         IN  IF \E w \in {K_complete, K_done, K_finish} : Occurs(w, lower)
             THEN Completed
             ELSE IF \E w \in {K_progress, K_ongoing, K_partial} :
                        Occurs(w, lower)
             THEN InProgress
             ELSE YetToStart

PartiallyComplete ==
    <<"P","a","r","t","i","a","l","l","y"," ","c","o","m","p","l","e","t",
      "e">>

\* C6: each of the three copies of normalizeStatus gives what the reference
\* rule gives: Completed for a text that, in lower case, contains complete,
\* done or finish; otherwise In Progress for one that contains progress,
\* ongoing or partial; otherwise, and for an empty or absent text, Yet to
\* Start. "Partially complete" gives Completed.
C6_NormalizeStatusMatchesRule ==
    norm.import # <<>> =>
        /\ norm.import  = ReferenceStatus(norm.input)
        /\ norm.convert = ReferenceStatus(norm.input)
        /\ norm.upload  = ReferenceStatus(norm.input)
        /\ norm.input = PartiallyComplete =>
              /\ norm.import = Completed
              /\ norm.convert = Completed
              /\ norm.upload = Completed

\* "Partially complete" has been normalized to Completed by all three.
C6_Witness ==
    /\ norm.input = PartiallyComplete
    /\ norm.import = Completed
    /\ norm.convert = Completed
    /\ norm.upload = Completed

\* Two item lists have the same topics and, topic by topic, the same set of
\* subTopics, the same set of projects and the same completionStatus.
Range(xs) == {xs[i] : i \in 1..Len(xs)}

EquivalentItems(xs, ys) ==
    /\ {xs[i].topic : i \in 1..Len(xs)} = {ys[j].topic : j \in 1..Len(ys)}
    /\ \A i \in 1..Len(xs), j \in 1..Len(ys) :
          xs[i].topic = ys[j].topic =>
            /\ Range(xs[i].subTopics) = Range(ys[j].subTopics)
            /\ Range(xs[i].projects) = Range(ys[j].projects)
            /\ xs[i].completionStatus = ys[j].completionStatus

\* C7: round trip: when sheet S has been imported (TechStack S) and the CSV
\* the converter wrote for sheet S has been uploaded (TechStack R), the two
\* TechStacks have the same topics, the same subTopics and projects sets
\* per topic and the same status per topic.
C7_RoundTripEquivalent ==
    LET s == findOne(store, T_S)
        r == findOne(store, T_R)
    IN  s # 0 /\ r # 0 =>
          EquivalentItems(store[s].roadmapItems, store[r].roadmapItems)

\* The step in which an ingestion unit is persisted successfully.
IngestSaved == run.pc = "rows" /\ run'.pc # "rows" /\ run'.last = "saved"

\* The name and the description of the unit in work.
UnitName ==
    IF run.script = "import" THEN disk.xlsx[run.unit].name ELSE UploadName

UnitDescription ==
    IF run.script = "import" THEN L_ImportedFrom \o disk.xlsx[run.unit].name
    ELSE UploadDescription

\* The stored items are the aggregated ones, in their order, the topic
\* trimmed by the schema.
StoredAs(stored, items) ==
    /\ Len(stored) = Len(items)
    /\ \A k \in 1..Len(items) :
          /\ stored[k].topic = trim(items[k].topic)
          /\ stored[k].subTopics = items[k].subTopics
          /\ stored[k].projects = items[k].projects
          /\ stored[k].completionStatus = items[k].completionStatus

\* C8: sink upsert: in the step that persists the unit named N, the store
\* comes to hold exactly one TechStack named N, whose description, headers
\* and roadmapItems are those of the run and nothing else, and the
\* TechStacks of other names are the same before and after.
C8_SinkReplacesWholesale ==
    [][IngestSaved =>
        LET named == {i \in 1..Len(store') : store'[i].name = UnitName}
        IN  /\ Cardinality(named) = 1
            /\ \A i \in named :
                  /\ store'[i].description = UnitDescription
                  /\ store'[i].headers = run.headers
                  /\ StoredAs(store'[i].roadmapItems, MapValues(run.map))
            /\ \A i \in 1..Len(store) :
                  store[i].name # UnitName =>
                    \E j \in 1..Len(store') : store'[j] = store[i]
            /\ \A j \in 1..Len(store') :
                  store'[j].name # UnitName =>
                    \E i \in 1..Len(store) : store[i] = store'[j]]_vars

\* TechStacks S and Q exist, the last request added an item to one of them
\* with success, and Q has no item: S had the added item, and the import
\* that then saved sheet S left S with the sheet's topics A and B alone.
C8_Witness ==
    /\ resp = Respond("addRoadmapItem", 200)
    /\ run.script = "import" /\ run.last = "saved"
    /\ Len(store) = 2
    /\ findOne(store, T_S) # 0 /\ findOne(store, T_Q) # 0
    /\ store[findOne(store, T_Q)].roadmapItems = <<>>
    /\ LET items == store[findOne(store, T_S)].roadmapItems
       IN  /\ Len(items) = 2
           /\ items[1].topic = T_A /\ items[2].topic = T_B

\* C9: no two TechStacks of the store have the same name, whatever
\* createTechStack, updateTechStack, deleteTechStack requests and ingestion
\* upserts have run; and a createTechStack whose (trimmed) name a TechStack
\* already has is answered 400 and leaves the store as it is.
C9_NamesUnique ==
    [][/\ \A i, j \in 1..Len(store') :
             i # j => store'[i].name # store'[j].name
       /\ \A body \in TechStackBodies :
             (/\ createTechStack(body)
              /\ body.name # Undefined
              /\ \E i \in 1..Len(store) : store[i].name = trim(body.name))
             => (resp'.status = 400 /\ store' = store)]_vars

\* A create was answered 400 while the store holds two TechStacks.
C9_Witness ==
    /\ resp = Respond("createTechStack", 400)
    /\ Len(store) = 2

\* C10: no TechStack of the store has two roadmapItems with the same topic,
\* whatever ingestion runs and addRoadmapItem, updateRoadmapItem and
\* deleteRoadmapItem requests have run.
C10_StoredTopicsUnique ==
    \A d \in 1..Len(store) :
        LET items == store[d].roadmapItems
        IN  \A i \in 1..Len(items) : \A j \in (i + 1)..Len(items) :
                items[i].topic # items[j].topic

\* The names readme and instructions, in the letter cases of the workbooks.
SkippedNames ==
    {K_readme, N_README, N_ReadMe, K_instructions, N_Instructions}

HasTechStack(name) == \E i \in 1..Len(store) : store[i].name = name

HasCsv(name) == \E i \in 1..Len(disk.csv) : disk.csv[i].name = name

\* The sheet loop of import or convert stands before sheet `unit`.
AtSheet ==
    /\ run.script \in {"import", "convert"} /\ run.pc = "sheet"
    /\ run.unit <= Len(disk.xlsx)

\* C11: in import and in convert a sheet named readme or instructions, in
\* any letter case, is skipped whatever its rows: the step over it writes
\* neither the store nor a CSV file, raises no error and moves on to the
\* next sheet; no TechStack and no CSV file of such a name ever exists; and
\* a run that has ended has ended well with the sheet S after it persisted
\* (import) or written (convert).
C11_ReadmeSheetsSkipped ==
    [][/\ (AtSheet /\ disk.xlsx[run.unit].name \in SkippedNames)
            => /\ store' = store /\ disk' = disk
               /\ run'.pc = "sheet" /\ run'.unit = run.unit + 1
               /\ run'.last = "skipped" /\ run'.count = run.count
               /\ run'.exit = -1
       /\ \A n \in SkippedNames : ~HasTechStack(n)' /\ ~HasCsv(n)'
       /\ run'.pc = "done"
            => /\ run'.exit = 0
               /\ run'.script = "import" => HasTechStack(T_S)'
               /\ run'.script = "convert" => HasCsv(T_S)'
      ]_vars

\* An import has ended after a sheet README with a topic row and S is stored.
C11_Witness ==
    /\ run.script = "import" /\ run.pc = "done"
    /\ disk.xlsx[1].name = N_README
    /\ Len(disk.xlsx[1].rows) > 1 /\ disk.xlsx[1].rows[2][1] = T_A
    /\ HasTechStack(T_S) /\ Len(store) = 1

\* C12: upload --dir skips a CSV file named readme or instructions, in any
\* letter case: no TechStack of such a name is created or updated.
C12_ReadmeFilesSkipped == \A n \in SkippedNames : ~HasTechStack(n)

\* Some data row of the sheet carries the topic A.
HasTopicRow(rows) == \E k \in 2..Len(rows) : rows[k][1] = T_A

\* C13: import and convert skip a sheet for want of data exactly when it
\* has fewer than 2 rows: a run over the one sheet S that has ended has
\* produced nothing if S has fewer than 2 rows, and has stored S (import)
\* or written S.csv (convert) if S has a header row and at least one data
\* row with a topic -- one such row is enough.
C13_SkippedExactlyBelowTwoRows ==
    (run.script \in {"import", "convert"} /\ run.pc = "done")
        => LET rows == disk.xlsx[1].rows
           IN  /\ Len(rows) < 2 => run.count = 0
               /\ (Len(rows) >= 2 /\ HasTopicRow(rows))
                    => /\ run.count = 1
                       /\ run.script = "import" => HasTechStack(T_S)
                       /\ run.script = "convert" => HasCsv(T_S)

\* The header rows of TwoColumnHeaders without a column for the topic field
NoTopicHeaders == {<<N_Name, L_Status>>, <<L_Projects, L_Status>>}

\* C14: in import --file and upload --dir a unit whose header row has no
\* topic column writes nothing to the store, and the run goes on: the step
\* over unit Q leaves the store alone and moves to the next unit without
\* ending the run, no TechStack Q ever exists, and a run that has ended has
\* exited with 0 after persisting the unit that follows (S, R).
C14_NoTopicColumnSkipsUnit ==
    [][disk.xlsx[1].rows[1] \in NoTopicHeaders
        => /\ (run.script \in {"import", "upload"} /\ run.unit = 1)
                => /\ store' = store
                   /\ run'.unit = 2 /\ run'.pc = run.pc /\ run'.exit = -1
           /\ ~HasTechStack(T_Q)'
           /\ run'.pc = "done"
                => /\ run'.exit = 0
                   /\ run'.script = "import" => HasTechStack(T_S)'
                   /\ run'.script = "upload" => HasTechStack(T_R)'
      ]_vars

\* An upload --dir has ended well after a file Q.csv with data rows and no
\* topic column: R is stored.
C14_Witness ==
    /\ run.script = "upload" /\ run.pc = "done" /\ run.exit = 0
    /\ disk.xlsx[1].rows[1] \in NoTopicHeaders
    /\ Len(disk.xlsx[1].rows) > 1
    /\ HasTechStack(T_R) /\ Len(store) = 1

\* The headers of SynonymDisks that contain a synonym of the topic field
\* ("topic", "technology") and of the projects field ("project", "task",
\* "app", "application").
TopicSynonymHeaders == {L_Topic, H_Technology}

ProjectSynonymHeaders == {L_Projects, L_ProjectTask, H_Task, H_Application}

\* The text of the CSV file `name`
CsvText(name) ==
    (CHOOSE f \in Range(disk.csv) : f.name = name).text

\* C15: each of the three header resolvers maps every header that contains
\* a synonym of the topic field, or of the projects field, to a column.
\* With the topic synonym in the first column the unit is never given up
\* for want of a topic column: the import counts the sheet, the converter
\* writes S.csv, the upload saves R. With the projects synonym in the second
\* column the import has a projectIndex, the upload a headerMapping.project
\* and the converter carries the header into S.csv.
C15_SynonymHeadersResolve ==
    LET header == disk.xlsx[1].rows[1]
    IN  /\ header[1] \in TopicSynonymHeaders
            => /\ (run.script = "import" /\ run.pc = "done")
                    => run.count = 1
               /\ (run.script = "convert" /\ run.pc = "done")
                    => HasCsv(T_S)
               /\ (run.script = "upload" /\ run.unit = 2)
                    => run.last = "saved"
        /\ header[2] \in ProjectSynonymHeaders
            => /\ (run.script = "import" /\ run.pc = "rows")
                    => run.ix.projects # -1
               /\ (run.script = "upload" /\ run.pc = "rows"
                        /\ run.unit = 1)
                    => ~Falsy(run.hm.project)
               /\ HasCsv(T_S) => includes(CsvText(T_S), header[2])

\* The second unit of FailDisks is one the run in work cannot persist: its
\* name " S" collides with the stored S, or (upload) the file has no data
\* row, hence no header, or a project cell of one space.
SecondUnitRefused ==
    LET unit == disk.xlsx[2]
    IN  \/ run.script = "import"
           /\ unit.name = N_sS /\ HasTopicRow(unit.rows)
        \/ run.script = "upload"
           /\ \/ unit.name = N_sS
              \/ Len(unit.rows) = 1
              \/ \E k \in 2..Len(unit.rows) :
                    unit.rows[k][1] = T_A /\ unit.rows[k][3] = <<" ">>

\* The run is at its second unit, or has just left it.
AtSecondUnit == Running /\ run.unit = 2

PastSecondUnit == Running /\ run.unit = 3 /\ run.pc \in {"sheet", "file"}

SourceMissing ==
    \/ run.script \in {"import", "convert"} /\ disk.xlsx = Missing
    \/ run.script = "upload" /\ disk.csv = Missing

\* C17: whichever the entry point (import --file, convert --file, upload
\* --file, upload --dir), a run whose input file or directory does not
\* exist ends with a non-zero exit status and reports no success.
C17_MissingSourceExitsNonZero ==
    (run.pc = "done" /\ SourceMissing)
        => run.exit # 0 /\ run.last = "failed" /\ run.count = 0

\* C18: in the CSV upload a row whose topic cell is empty or only
\* whitespace gives no RoadmapItem and never makes the file fail: once a
\* file with data rows has been gone through it is saved, and what is
\* stored has an item for topic A exactly if some row has that topic, and
\* no other item.
C18_BlankTopicRowsSkipped ==
    (run.script = "upload" /\ run.unit = 2 /\ run.table.data # <<>>)
        => /\ run.last = "saved"
           /\ HasTechStack(T_S)
           /\ LET items == store[findOne(store, T_S)].roadmapItems
              IN  /\ \A i \in 1..Len(items) : items[i].topic = T_A
                  /\ Len(items) <= 1
                  /\ (items # <<>>) <=>
                        \E k \in 1..Len(run.table.data) :
                            run.table.data[k][1] = T_A

\* No data row of the sheet has a topic cell that is more than whitespace.
NoTopicValue(rows) ==
    \A k \in 2..Len(rows) : rows[k][1] \in {<<>>, <<" ">>}

\* C19: in the import a sheet with a topic column but no row with a topic
\* value yields zero RoadmapItems, writes nothing to the store, is not
\* counted and does not fail the run: while the run is at sheet Q the map
\* stays empty, the store and the count stay as they are and nothing is
\* logged as failed; no TechStack Q ever exists; and the run ends with
\* exit 0 having stored and counted only the sheet S after it.
C19_SheetWithoutTopicsWritesNothing ==
    [][NoTopicValue(disk.xlsx[1].rows)
        => /\ (run.script = "import" /\ run.unit = 1)
                => /\ store' = store
                   /\ run'.map = <<>> /\ run'.count = 0
                   /\ run'.last # "failed" /\ run'.exit = -1
           /\ ~HasTechStack(T_Q)'
           /\ run'.pc = "done"
                => /\ run'.exit = 0 /\ run'.count = 1
                   /\ HasTechStack(T_S)'
      ]_vars

\* The import has ended after a sheet Q of three rows, a blank topic cell
\* among them: only S is stored.
C19_Witness ==
    /\ run.script = "import" /\ run.pc = "done"
    /\ Len(disk.xlsx[1].rows) = 4
    /\ NoTopicValue(disk.xlsx[1].rows)
    /\ disk.xlsx[1].rows[2][1] = <<" ">>
    /\ disk.xlsx[1].rows[3][2] = T_x
    /\ HasTechStack(T_S) /\ Len(store) = 1 /\ run.count = 1

\* The field has a comma, a double quote or a line break (LF or CR).
NeedsQuotes(field) ==
    \E i \in 1..Len(field) : field[i] \in {",", "\"", "\n", "\r"}

\* The field between double quotes, each of its double quotes doubled
Quoted(field) ==
    <<"\"">>
        \o Flatten([i \in 1..Len(field) |->
                       IF field[i] = "\"" THEN <<"\"", "\"">>
                                          ELSE <<field[i]>>])
        \o <<"\"">>

\* The texts xs with sep between them
Separated(xs, sep) ==
    Flatten([i \in 1..Len(xs) |-> IF i = 1 THEN xs[i] ELSE sep \o xs[i]])

\* C20: in the CSV file the converter writes, every field with a comma, a
\* double quote or a line break stands between double quotes with each of
\* its double quotes doubled, and every other field stands as it is: S.csv
\* is the rows of the output, one per line, of their fields so written with
\* commas between them.
C20_CsvFieldsEscaped ==
    HasCsv(T_S)
        => LET csvData == ConvertData(disk.xlsx[1].rows)
               Written(field) ==
                   IF NeedsQuotes(field) THEN Quoted(field) ELSE field
               Line(k) ==
                   Separated([j \in 1..Len(csvData[k]) |->
                                 Written(csvData[k][j])], <<",">>)
           IN  CsvText(T_S)
                 = Separated([k \in 1..Len(csvData) |-> Line(k)], <<"\n">>)

\* S.csv is written from a sheet with a quote in a topic cell, a bare
\* carriage return in another and quotes, comma and CRLF in a sub-topic cell.
C20_Witness ==
    /\ HasCsv(T_S)
    /\ Len(disk.xlsx[1].rows) = 4
    /\ disk.xlsx[1].rows[2][1] = E_quote
    /\ disk.xlsx[1].rows[3][1] = E_cr
    /\ disk.xlsx[1].rows[4][1] = T_A
    /\ disk.xlsx[1].rows[4][2] = E_mixed

\* The topic names of the cells, trimmed, blank ones left out, each once in
\* the order of its first appearance.
FirstAppearances(cells) ==
    DistinctInOrder(SelectSeq(MapSeq(trim, cells), NonEmpty))

\* The topic cells (column 1) of the rows the upload's forEach has gone
\* through.
UploadedTopicCells == [k \in 1..run.row |-> run.table.data[k][1]]

\* C21: in both aggregation paths the list of roadmap items is in the order
\* of the first appearance of each topic name in the rows: a topic that
\* comes back after other topics keeps the place of its first appearance
\* and takes no second one.
C21_ItemsInFirstAppearanceOrder ==
    /\ InImportRows
        => LET items == MapValues(run.map)
           IN  [i \in 1..Len(items) |-> trim(items[i].topic)]
                 = FirstAppearances(
                       [k \in 1..Len(ConsumedRows) |-> ConsumedRows[k][1]])
    /\ (run.script = "upload" /\ run.pc = "rows")
        => LET items == MapValues(run.map)
           IN  [i \in 1..Len(items) |-> trim(items[i].topic)]
                 = FirstAppearances(UploadedTopicCells)

\* C22: within a run of import or upload --dir the units are processed
\* strictly one after another. The unit index only ever moves to the next
\* unit, and it moves in the very step that resolves the unit: the unit is
\* then saved, with the store holding what was aggregated for it, or failed
\* or skipped, with the store as it was. No other step of the run touches
\* the store, and the aggregation of a unit starts from an empty map only
\* after the unit before it has been so resolved.
C22_UnitsOneAfterAnother ==
    [][run.script \in {"import", "upload"}
        => /\ run'.script = run.script
                => run'.unit \in {run.unit, run.unit + 1}
           /\ run'.unit = run.unit + 1
                => /\ run'.pc \in {"sheet", "file"}
                   /\ run'.last \in {"saved", "failed", "skipped"}
                   /\ run'.last = "saved"
                        => \E i \in 1..Len(store') :
                              /\ store'[i].name = UnitName
                              /\ StoredAs(store'[i].roadmapItems,
                                          MapValues(run.map))
                   /\ run'.last # "saved" => store' = store
           /\ run'.unit = run.unit => store' = store
           /\ (run.pc # "rows" /\ run'.pc = "rows")
                => /\ run'.map = <<>> /\ run'.unit = run.unit
                   /\ run.unit > 1 => run.last \in {"saved", "failed",
                                                    "skipped"}
      ]_vars

\* The upload is aggregating the first row of Q.csv, its third file: S is
\* stored, R.csv before it has failed and Q is not stored yet.
C22_Witness ==
    /\ run.script = "upload" /\ run.unit = 3 /\ run.pc = "rows"
    /\ run.row = 1 /\ run.last = "failed"
    /\ disk.csv[2].name = T_R
    /\ HasTechStack(T_S) /\ ~HasTechStack(T_R) /\ ~HasTechStack(T_Q)

\* The highest status among the non-blank status cells, "Yet to Start" if
\* there is none.
MergedStatus(cells) ==
    LET given == {normalizeStatusImport(cells[n]) :
                    n \in {m \in 1..Len(cells) : trim(cells[m]) # <<>>}}
    IN  IF Completed \in given THEN Completed
        ELSE IF InProgress \in given THEN InProgress ELSE YetToStart

\* C23: workbook import carry-forward: at every point of the row loop the
\* records are those of the topics some consumed row belongs to, a row with
\* an empty topic cell belonging to the topic of the most recent earlier row
\* that has one and to none before the first; and the sub-topics, projects
\* and status of a record are built from the cells of exactly the rows that
\* belong to its topic.
C23_EmptyTopicRowsCarryForward ==
    InImportRows =>
      /\ {run.map[i].key : i \in 1..Len(run.map)} =
           {CarriedTopic(ConsumedRows, k) : k \in 1..Len(ConsumedRows)}
               \ {Null}
      /\ \A i \in 1..Len(run.map) :
           LET topic == run.map[i].key
               rec   == run.map[i].val
           IN  /\ rec.subTopics =
                    DistinctInOrder(Flatten(MapSeq(LineTokens,
                        CellsOf(ConsumedRows, topic, 2))))
               /\ rec.projects =
                    DistinctInOrder(SelectSeq(
                        MapSeq(trim, CellsOf(ConsumedRows, topic, 3)),
                        NonEmpty))
               /\ rec.completionStatus =
                    MergedStatus(CellsOf(ConsumedRows, topic, 4))

\* The rows (, x, p, Done), (A), (, x, p, Done) have been consumed: the
\* first went to no record, the third to A.
C23_Witness ==
    /\ InImportRows /\ run.row = 4
    /\ ConsumedRows[1] = <<<<>>, T_x, T_p, D_Done>>
    /\ ConsumedRows[2][1] = T_A
    /\ ConsumedRows[3] = <<<<>>, T_x, T_p, D_Done>>
    /\ Len(run.map) = 1
    /\ MapGet(run.map, T_A) =
         [topic |-> T_A, subTopics |-> <<T_x>>, projects |-> <<T_p>>,
          completionStatus |-> Completed]

\* C24: workbook import: at every point of the row loop, the projects of
\* every topic are the distinct trimmed non-empty line tokens of the project
\* cells (column 3) of the consumed rows that belong to the topic, in order
\* of first occurrence, as for the sub-topic cells.
C24_ImportProjectsDistinctTokens ==
    InImportRows =>
      \A i \in 1..Len(run.map) :
        run.map[i].val.projects =
          DistinctInOrder(Flatten(MapSeq(LineTokens,
              CellsOf(ConsumedRows, run.map[i].key, 3))))

\* The header contains a synonym of the topic field of upload and convert.
HasTopicSynonym(h) == MatchesAny(h, <<K_topics, K_topic, K_technology>>)

\* The cells of the 0-based column c of the rows
Column(rows, c) == [k \in 1..Len(rows) |-> At(rows[k], c)]

\* C25: the import never takes for the topic a column whose header contains
\* "sub"; the upload and the converter take the leftmost column whose header
\* contains a topic synonym. With the header row Sub-Topics, Topic the
\* import reads the topics from the second column, while the upload keys
\* its items by the cells of the first, the sub-topic column, and the
\* converter writes the first column out as the topic column.
C25_PathsDivergeOnSubTopicsFirst ==
    /\ (run.script = "import" /\ run.pc = "rows") =>
         LET rows == disk.xlsx[run.unit].rows
         IN  /\ ~includes(toLowerCase(At(rows[1], run.ix.topic)), K_sub)
             /\ rows[1] = SwappedHeader => run.ix.topic = 1
    /\ (run.script = "upload" /\ run.pc = "rows") =>
         /\ run.hm.topic =
              At(run.table.fields,
                 findIndex(run.table.fields, HasTopicSynonym))
         /\ run.table.fields = SwappedHeader => run.hm.topic = L_SubTopics
    /\ (HasCsv(T_S) /\ disk.xlsx[1].rows[1] = SwappedHeader) =>
         LET written == PapaParse(CsvText(T_S))
             cells   == Column(Tail(disk.xlsx[1].rows), 0)
         IN  /\ written.fields[1] = L_SubTopics
             /\ Column(written.data, 0) = SelectSeq(cells, NonEmpty)

\* Sheet S and file R.csv, both with the header row Sub-Topics, Topic and
\* the rows (x, A), (y, B), have been ingested: S holds the topics A, B and
\* R the topics x, y.
C25_Witness ==
    /\ disk.xlsx[1].rows = <<SwappedHeader, <<T_x, T_A>>, <<T_y, T_B>>>>
    /\ \E i, j \in 1..Len(store) :
         /\ store[i].name = T_S /\ store[j].name = T_R
         /\ Len(store[i].roadmapItems) = 2
         /\ store[i].roadmapItems[1].topic = T_A
         /\ store[i].roadmapItems[2].topic = T_B
         /\ Len(store[j].roadmapItems) = 2
         /\ store[j].roadmapItems[1].topic = T_x
         /\ store[j].roadmapItems[2].topic = T_y
    /\ HasCsv(T_S)

\* What a TechStack holds apart from the generated ids (the model keeps no
\* timestamps)
ContentOf(doc) ==
    [name |-> doc.name, description |-> doc.description,
     headers |-> doc.headers,
     roadmapItems |->
         [k \in 1..Len(doc.roadmapItems) |->
             [topic            |-> doc.roadmapItems[k].topic,
              subTopics        |-> doc.roadmapItems[k].subTopics,
              projects         |-> doc.roadmapItems[k].projects,
              completionStatus |-> doc.roadmapItems[k].completionStatus]]]

\* The unit in work has been ingested by an earlier run: the inputs do not
\* change and each name is written by one script only.
IngestedBefore == run.pc = "rows" /\ HasTechStack(UnitName)

\* C26: ingestion is idempotent on the store: when a run of the import or
\* of the upload resolves a unit that an earlier run on the same input has
\* stored, every TechStack has the same name, description, headers and
\* roadmapItems content after the step as before it.
C26_IngestionIdempotent ==
    [][(IngestedBefore /\ run'.pc # "rows")
          => /\ Len(store') = Len(store)
             /\ \A i \in 1..Len(store) :
                   ContentOf(store'[i]) = ContentOf(store[i])]_vars

\* A second import of the sheet A, B, " A " has consumed its rows and stands
\* before its save, the TechStack S of the first import being stored with
\* the items A and B.
C26_Witness ==
    /\ IngestedBefore /\ run.script = "import"
    /\ run.row >= Len(disk.xlsx[1].rows)
    /\ LET rows == disk.xlsx[1].rows
       IN  /\ Len(rows) = 4
           /\ rows[2][1] = T_A /\ rows[3][1] = T_B /\ rows[4][1] = T_sA
    /\ Len(store[findOne(store, T_S)].roadmapItems) = 2

\* A clean name: not empty, no whitespace at either end.
CleanName(name) == name # <<>> /\ trim(name) = name

\* C27: in both row loops every sub-topic name and every project name of
\* every aggregated record is a non-empty text without leading or trailing
\* whitespace.
C27_NamesNonEmptyAndTrimmed ==
    (run.script \in {"import", "upload"} /\ run.pc = "rows") =>
      \A i \in 1..Len(run.map) :
        LET rec == run.map[i].val
        IN  /\ \A n \in 1..Len(rec.subTopics) : CleanName(rec.subTopics[n])
            /\ \A n \in 1..Len(rec.projects) : CleanName(rec.projects[n])

\* C28: CSV upload: when the row loop over a file with a topic column ends
\* with zero RoadmapItems, the step that resolves the file leaves the store
\* as it is: no TechStack is created, and none has its roadmapItems
\* replaced by an empty list.
C28_UploadWithoutItemsKeepsStore ==
    [][(/\ run.script = "upload" /\ run.pc = "rows" /\ run'.pc # "rows"
        /\ ~Falsy(run.hm.topic) /\ MapValues(run.map) = <<>>)
          => store' = store]_vars

\* C29: the router matches its routes in the order of registration, and a
\* GET for /consolidated is handled by getConsolidatedRoadmaps, which
\* answers 200 with the roadmaps that have isConsolidated = true, and not
\* by getRoadmapById.
C29_ConsolidatedRouteReached ==
    (reply.method = "GET" /\ reply.path = <<"consolidated">>)
        => /\ reply.handler = "getConsolidatedRoadmaps"
           /\ reply.status = 200
           /\ reply.data =
                NewestFirst(SelectSeq(roadmaps,
                                      LAMBDA d : d.isConsolidated))

\* C30: of every uploadRoadmap request with filename and content, the
\* lookup has come back before the PUT is sent; the PUT carries a sha
\* exactly when the lookup answered 200, and then the sha of that answer;
\* and a PUT that came back with a status other than 200 and 201 is
\* answered 500, so that who is answered 201 has had the PUT accepted.
C30_UploadLooksUpThenPuts ==
    \A r \in 1..Len(github.reqs) :
        LET q == github.reqs[r]
        IN  /\ (q.pc = "put" \/ q.sent) => q.looked # 0
            /\ q.sent => /\ (q.sentSha # Undefined) <=> (q.looked = 200)
                         /\ q.looked = 200 => q.sentSha = q.gotSha
            /\ (q.sent /\ q.put \notin {200, 201}) => q.answer = 500
            /\ q.answer = 201 => (q.sent /\ q.put \in {200, 201})

\* Two uploads of a.html have both looked the file up and got the same sha;
\* the PUT of the first was accepted and answered 201, the PUT of the
\* second, its sha stale by then, was refused with 409 and answered 500.
C30_Witness ==
    /\ Len(github.reqs) = 2
    /\ \A r \in 1..2 : /\ github.reqs[r].filename = F_a
                       /\ github.reqs[r].looked = 200
                       /\ github.reqs[r].sentSha = ShaOf(C_1)
    /\ github.reqs[1].put = 200 /\ github.reqs[1].answer = 201
    /\ github.reqs[1].content = C_2
    /\ github.reqs[2].put = 409 /\ github.reqs[2].answer = 500
    /\ FileAt(github.files, F_a) = C_2

=============================================================================
